---- MODULE Spec2Model ----
(***************************************************************************)
(* Model of the persona orchestrator of the OMANI Therapist Voice backend  *)
(* (backend/config/therapy_agent_manager.py, class TherapyAgentManager)    *)
(* and of the coroutines of backend/main.py that drive it.                 *)
(*                                                                         *)
(* The orchestrator is one object shared by every coroutine of the event   *)
(* loop.  A coroutine runs without interruption up to an await that really *)
(* suspends; the two such awaits of the orchestrator are the recreate      *)
(* callback inside switch_agent and the handler's execute inside           *)
(* handle_function_call.  Every action below is the code between two       *)
(* suspension points.                                                      *)
(***************************************************************************)
EXTENDS Integers, Sequences, FiniteSets, TLC

(***************************************************************************)
(* Bounds of the model.                                                    *)
(***************************************************************************)
MaxHistory == 2

(* The calls of manage_session stop when the clinical action log of the    *)
(* session handler has this many entries.                                  *)
MaxLog == 4

(* The coroutines that call into the orchestrator: the pipeline, which     *)
(* serves the remote session's function calls and the crisis tool's        *)
(* escalation callback, and the command loops of two /ws/tools clients,    *)
(* which serve the switch_agent and update_cultural_context commands.      *)
Pipeline == "pipeline"

Clients == {"tools_ws_1", "tools_ws_2"}

Tasks == {Pipeline} \cup Clients

(***************************************************************************)
(* Python dicts are functions with a finite domain of keys.                *)
(***************************************************************************)
EmptyDict == [k \in {} |-> ""]

Dict(d) == [k \in DOMAIN d |-> d[k]]

Get(d, k, default) == IF k \in DOMAIN d THEN d[k] ELSE default

Update(d, u) ==
    [k \in (DOMAIN d) \cup (DOMAIN u) |-> IF k \in DOMAIN u THEN u[k] ELSE d[k]]

Without(d, ks) == [k \in (DOMAIN d) \ ks |-> d[k]]

(* The value None, where a dict or a string is expected. *)
PyNone == "<None>"

(***************************************************************************)
(* Names.                                                                  *)
(***************************************************************************)
AgentNames == {"general_therapy", "crisis_intervention", "cbt_specialist"}

(* Registration order, which is the order of list(self.agents.keys()). *)
AgentOrder == <<"general_therapy", "crisis_intervention", "cbt_specialist">>

ToolKeys == {"crisis_detection", "cbt_techniques", "emotional_analysis",
             "session_management"}

ToolOrder == <<"crisis_detection", "cbt_techniques", "emotional_analysis",
               "session_management">>

FunctionNames == {"detect_crisis", "apply_cbt_technique", "analyze_emotion",
                  "manage_session"}

(* The function name under which each tool instance is defined. *)
get_tool_definition(tool) ==
    CASE tool = "crisis_detection" -> "detect_crisis"
      [] tool = "cbt_techniques" -> "apply_cbt_technique"
      [] tool = "emotional_analysis" -> "analyze_emotion"
      [] tool = "session_management" -> "manage_session"

(* The prompt constants, named, not spelled out. *)
Instruction(agent_name) ==
    CASE agent_name = "general_therapy" -> "GENERAL_THERAPY_INSTRUCTION"
      [] agent_name = "crisis_intervention" -> "CRISIS_INTERVENTION_INSTRUCTION"
      [] agent_name = "cbt_specialist" -> "CBT_SPECIALIST_INSTRUCTION"

(* A sequence restricted to the members of a set, order kept. *)
RECURSIVE Filter(_, _)
Filter(seq, S) ==
    IF seq = << >> THEN << >>
    ELSE (IF Head(seq) \in S THEN <<Head(seq)>> ELSE << >>) \o Filter(Tail(seq), S)

(* ", ".join(names) as a sequence of string pieces. *)
RECURSIVE Join(_)
Join(seq) ==
    IF seq = << >> THEN << >>
    ELSE IF Len(seq) = 1 THEN <<Head(seq)>>
    ELSE <<Head(seq), ", ">> \o Join(Tail(seq))

VARIABLES
    current_agent,          \* self.current_agent
    agents,                 \* self.agents: name -> configuration
    agent_tools,            \* self.agent_tools: name -> (tool key -> instance)
    agent_history,          \* self.agent_history
    cultural_context,       \* self.cultural_context
    clinical_state,         \* self.clinical_state
    llm_recreate_callback,  \* TRUE iff self.llm_recreate_callback is bound
    recreate_log,           \* the invocations of the recreate callback, in order
    pc,                     \* per coroutine: where it is suspended
    frame,                  \* per coroutine: the locals of its suspended call
    returned,               \* the call that returned last, and its value
    crisis_tool,            \* the CrisisDetectionTool instance: its flags
    session_tool,           \* the SessionManagementTool instance
    remote_session,         \* the LLM service in the pipeline: what it was built with
    therapy_agent_manager,  \* main.py's module global: the connection whose manager it names
    active_tools,           \* global_tool_registry._active_tools: whose instances it holds
    connection,             \* per /ws connection: its manager and its LLM service
    dispatched,             \* the last function call of a connection's remote session
    global_tool_registry,   \* tool_registry.py's module global: its classes and instances
    tool_websockets,        \* tool_websocket_registry.py's module global dict
    broadcast,              \* the locals of broadcast_to_all_therapeutic_clients
    cbt_tool                \* the CBTTechniquesTool instance: its lists

vars == <<current_agent, agents, agent_tools, agent_history, cultural_context,
          clinical_state, llm_recreate_callback, recreate_log, pc, frame,
          returned, crisis_tool, session_tool, remote_session,
          therapy_agent_manager, active_tools, connection, dispatched,
          global_tool_registry, tool_websockets, broadcast, cbt_tool>>

orchestrator == <<current_agent, agent_history, cultural_context, clinical_state>>

registration == <<agents, agent_tools, llm_recreate_callback>>

handlers == <<crisis_tool, session_tool>>

notification == <<tool_websockets, broadcast>>

aside == <<notification, cbt_tool>>

deployment == <<therapy_agent_manager, active_tools, connection, dispatched,
                global_tool_registry, aside>>

(* What no method of the orchestrator writes. *)
surroundings == <<handlers, remote_session, deployment>>

(***************************************************************************)
(* The cultural_context argument of switch_agent.  It is None (the         *)
(* default), a dict, the orchestrator's own live self.cultural_context     *)
(* (handle_crisis_escalation passes it), or, from a /ws/tools command      *)
(* whose JSON is not an object, a non-empty string.                        *)
(***************************************************************************)
NoneContext == [ref |-> "none", val |-> EmptyDict]

DictContext(d) == [ref |-> "dict", val |-> Dict(d)]

SelfContext == [ref |-> "self", val |-> EmptyDict]

JsonStringContext == [ref |-> "json_string", val |-> EmptyDict]

(* The dict an argument denotes when the code reads it. *)
ContextValue(arg, live) == IF arg.ref = "self" THEN live ELSE arg.val

(* Python truthiness of the argument. *)
Truthy(arg, live) ==
    CASE arg.ref = "none" -> FALSE
      [] arg.ref = "json_string" -> TRUE
      [] OTHER -> DOMAIN ContextValue(arg, live) # {}

(***************************************************************************)
(* register_agent, as a function of the two maps it writes.                *)
(***************************************************************************)
_get_agent_specialization(agent_name) ==
    CASE agent_name = "general_therapy" ->
            "Comprehensive mental health support with cultural sensitivity"
      [] agent_name = "crisis_intervention" ->
            "Emergency crisis intervention and safety management"
      [] agent_name = "cbt_specialist" ->
            "Cognitive Behavioral Therapy with Islamic integration"
      [] OTHER -> "Specialized therapeutic support"

register_agent(maps, agent_name, instructions, tools, tool_instances) ==
    [agents |->
        Update(maps.agents,
               [n \in {agent_name} |->
                   [instructions |-> instructions,
                    tools |-> tools,
                    tool_instances |-> tool_instances,
                    specialization |-> _get_agent_specialization(agent_name)]]),
     agent_tools |->
        Update(maps.agent_tools, [n \in {agent_name} |-> tool_instances])]

(* A handler map binding each key of S to the one instance of that tool. *)
Instances(S) == [k \in S |-> k]

(* The tool definitions of the instances of S, in dict order. *)
Definitions(S) ==
    LET ks == Filter(ToolOrder, S)
    IN  [i \in 1..Len(ks) |-> get_tool_definition(ks[i])]

NoAgents == [agents |-> EmptyDict, agent_tools |-> EmptyDict]

(* The three registrations of a session, with the handlers of each persona. *)
RegisterAll(general, crisis, cbt) ==
    LET a == register_agent(NoAgents, "general_therapy",
                            Instruction("general_therapy"),
                            Definitions(general), Instances(general))
        b == register_agent(a, "crisis_intervention",
                            Instruction("crisis_intervention"),
                            Definitions(crisis), Instances(crisis))
    IN  register_agent(b, "cbt_specialist", Instruction("cbt_specialist"),
                       Definitions(cbt), Instances(cbt))

(* run_therapy_bot: every tool for general, two each for crisis and CBT. *)
MainSetup ==
    RegisterAll(ToolKeys, {"crisis_detection", "session_management"},
                {"cbt_techniques", "emotional_analysis"})

(* The test harness: every tool for general, one each for crisis and CBT. *)
TestSetup == RegisterAll(ToolKeys, {"crisis_detection"}, {"cbt_techniques"})

(* Personas with pairwise distinct tool subsets. *)
DistinctSetup ==
    RegisterAll({"emotional_analysis", "session_management"},
                {"crisis_detection"}, {"cbt_techniques"})

(* A session setup: the registrations, and whether the callback is bound.  *)
(* run_therapy_bot binds it, the test harness does not.                    *)
SessionSetups ==
    { [maps |-> MainSetup, callback |-> TRUE],
      [maps |-> TestSetup, callback |-> FALSE] }

Setups == SessionSetups \cup { [maps |-> DistinctSetup, callback |-> TRUE] }

(***************************************************************************)
(* Coroutine frames.                                                       *)
(***************************************************************************)
IdleFrame ==
    [op |-> "none", target_agent |-> "", reason |-> "",
     cultural_context |-> NoneContext, previous_agent |-> "",
     tool |-> "", action |-> "", kwargs |-> EmptyDict]

(* What a call handed back: its value, or the exception that left it, how  *)
(* the recreate callback it awaited ended, if it awaited one, the tool     *)
(* instance whose execute it called, if it called one, and the actions of  *)
(* the entries the call appended to that instance's session_clinical_log.  *)
NothingReturned ==
    [task |-> "none", op |-> "none", value |-> << >>, raised |-> FALSE,
     callback |-> "none", handler |-> "", logged |-> << >>]

Return(t, op, value) ==
    [task |-> t, op |-> op, value |-> value, raised |-> FALSE,
     callback |-> "none", handler |-> "", logged |-> << >>]

Raise(t, op, value) ==
    [task |-> t, op |-> op, value |-> value, raised |-> TRUE,
     callback |-> "none", handler |-> "", logged |-> << >>]

(* The same outcome, of a call that appended these log entries. *)
Logging(entries, outcome) == [outcome EXCEPT !.logged = entries]

(* The same outcome, of a call that went through a handler's execute. *)
Through(instance, outcome) == [outcome EXCEPT !.handler = instance]

(* A tool instance as the registry sees it: its class, and the processor   *)
(* and the task BaseTool.__init__ stored.  NoTask is None, NoInstance is   *)
(* the None that create_tool and get_tool return.                          *)
NoTask == "none"

NoInstance == [class |-> "none", rtvi_processor |-> "none", task |-> NoTask]

tool_class(class, rtvi_processor, task) ==
    [class |-> class, rtvi_processor |-> rtvi_processor, task |-> task]

(* TherapeuticToolRegistry.__init__ *)
TherapeuticToolRegistry ==
    [_tool_classes |-> EmptyDict, _active_tools |-> [k \in {} |-> NoInstance]]

(* The dict tool_websockets, as CPython keeps it: the entries in insertion *)
(* order, a deleted entry staying in place as a hole.  A client's id is    *)
(* the position of its entry (the code draws a fresh uuid4 per client);    *)
(* the entry is TRUE while the key is in the dict.  With at most           *)
(* MaxClients insertions the dict is never resized.                        *)
MaxClients == 3

keys(d) == {i \in 1..Len(d) : d[i]}

(* The locals of a broadcast and the state of the iterator of its for      *)
(* loop: di_used is the size of the dict when the iterator was made, len   *)
(* the number of items it has yet to yield, di_pos the entry it stands     *)
(* at.  registered, sends and changed are kept for the properties: the     *)
(* keys at the start, the send_json calls made with their outcomes, and    *)
(* whether the dict was written by an endpoint during the broadcast.       *)
NoBroadcast ==
    [at |-> "idle", di_used |-> 0, len |-> 0, di_pos |-> 0, sent_count |-> 0,
     failed_clients |-> << >>, registered |-> {}, sends |-> << >>,
     changed |-> FALSE]

(* CBTTechniquesTool.__init__: the lists the mood monitoring writes, and   *)
(* the actions of the log entries.                                         *)
CBTTechniquesTool ==
    [active_techniques |-> << >>, mood_logs |-> << >>,
     session_clinical_log |-> << >>]

(* The /ws connections of the process.  Each runs run_therapy_bot, which   *)
(* creates a manager, tool instances and an LLM service of its own.        *)
Connections == {"A", "B"}

NoConnection == "none"

(* A connection before run_therapy_bot ran for it. *)
NotConnected ==
    [connected |-> FALSE, current_agent |-> "", function_handler |-> "",
     crisis_detected |-> FALSE]

NothingDispatched ==
    [caller |-> NoConnection, manager |-> NoConnection,
     instances |-> NoConnection, function_name |-> "", available |-> FALSE]

(* The LLM service run_therapy_bot puts in the pipeline: SYSTEM_INSTRUCTION, *)
(* which is GENERAL_THERAPY_INSTRUCTION, and the definitions of every tool  *)
(* of the registry.                                                         *)
create_native_audio_therapy_llm ==
    [instructions |-> Instruction("general_therapy"),
     tools |-> Definitions(ToolKeys)]

(* The flags of a CrisisDetectionTool as its __init__ leaves them. *)
CrisisDetectionTool ==
    [current_risk_level |-> "low", crisis_detected |-> FALSE,
     emergency_escalation_needed |-> FALSE, safety_plan_created |-> FALSE]

(* A SessionManagementTool as its __init__ leaves it.  A time is the number *)
(* of clinical actions logged so far, and 0 stands for None;               *)
(* session_clinical_log, which log_clinical_action creates on its first    *)
(* call, starts empty.  clinical_data is left out.                         *)
SessionManagementTool ==
    [current_session |-> EmptyDict, session_history |-> << >>,
     consent_status |-> EmptyDict, emergency_contacts |-> << >>,
     cultural_preferences |-> EmptyDict, session_active |-> FALSE,
     session_start_time |-> 0, session_notes |-> << >>,
     privacy_level |-> "high", therapeutic_goals |-> << >>,
     progress_markers |-> << >>, session_outcomes |-> EmptyDict,
     session_clinical_log |-> << >>, crisis_detected |-> FALSE,
     emergency_escalation_needed |-> FALSE]

(* TherapyAgentManager.__init__, then the setup of the session. *)
InitOver(setups) ==
    \E s \in setups :
        /\ current_agent = "general_therapy"
        /\ agents = s.maps.agents
        /\ agent_tools = s.maps.agent_tools
        /\ agent_history = << >>
        /\ cultural_context = EmptyDict
        /\ clinical_state = EmptyDict
        /\ llm_recreate_callback = s.callback
        /\ recreate_log = << >>
        /\ pc = [t \in Tasks |-> "idle"]
        /\ frame = [t \in Tasks |-> IdleFrame]
        /\ returned = NothingReturned
        /\ crisis_tool = CrisisDetectionTool
        /\ session_tool = SessionManagementTool
        /\ remote_session = create_native_audio_therapy_llm
        /\ therapy_agent_manager = NoConnection
        /\ active_tools = NoConnection
        /\ connection = [c \in Connections |-> NotConnected]
        /\ dispatched = NothingDispatched
        /\ global_tool_registry = TherapeuticToolRegistry
        /\ tool_websockets = << >>
        /\ broadcast = NoBroadcast
        /\ cbt_tool = CBTTechniquesTool

(***************************************************************************)
(* switch_agent.                                                           *)
(***************************************************************************)
agent_descriptions(agent) ==
    CASE agent = "general_therapy" -> "your primary therapist"
      [] agent = "crisis_intervention" -> "crisis intervention specialist"
      [] agent = "cbt_specialist" -> "cognitive behavioral therapy specialist"
      [] OTHER -> agent

(* The announcement, as the sequence of the pieces the code concatenates.  *)
(* context is the dict the cultural_context argument denotes, or the empty *)
(* dict when the argument is None.  Arabic text is written as [ar: ...].   *)
_generate_agent_switch_message(from_agent, to_agent, reason, context) ==
    LET to_desc == agent_descriptions(to_agent)
        religious == Get(context, "religious_considerations", "") # ""
        base ==
            IF Get(context, "preferred_language", "") = "arabic"
            THEN <<"[ar: I will transfer you to ", to_desc, "]",
                   "I'm connecting you with ", to_desc, " for specialized support.">>
            ELSE <<"I'm connecting you with ", to_desc, " for specialized support.">>
        why == IF reason # "" THEN <<"Reason for this change: ", reason>> ELSE << >>
        comfort ==
            IF religious
            THEN <<"Insha'Allah, you will find the appropriate support with this specialization.">>
            ELSE << >>
        closing ==
            CASE to_agent = "crisis_intervention" ->
                    <<"Crisis support activated. Your safety is the priority.",
                      "You are not alone. We are here to help you.">>
              [] to_agent = "cbt_specialist" ->
                    <<"CBT specialist ready to help with thought patterns and coping strategies.">>
                    \o (IF religious
                        THEN <<"We'll integrate Islamic principles with evidence-based therapy techniques.">>
                        ELSE << >>)
              [] to_agent = "general_therapy" ->
                    <<"Back to general therapeutic support for comprehensive care.">>
              [] OTHER -> << >>
    IN  base \o why \o comfort \o closing

(* The rejection without the list of the registered personas. *)
unnamed_not_available_message(target_agent) ==
    <<"Therapeutic agent '", target_agent, "' not available.">>

not_available_message(target_agent) ==
    <<"Therapeutic agent '", target_agent, "' not available. Available: ">>
        \o Join(Filter(AgentOrder, DOMAIN agents))

already_using_message(target_agent) == <<"Already using ", target_agent, " agent.">>

(* The guard of the first early return: the target is not registered. *)
agent_not_registered(target_agent) == target_agent \notin DOMAIN agents

(* switch_agent without its second early return. *)
never_already_active(target_agent) == FALSE

(* The guard of the second early return: the target is the active persona. *)
agent_already_active(target_agent) == target_agent = current_agent

(* The SwitchRecord.  "cultural_context or {}" stores the argument itself: *)
(* when the argument is the live self.cultural_context, the record holds a *)
(* reference to it and not a copy.  clinical is self.clinical_state, which *)
(* is copied.  The timestamp is left out.                                  *)
switch_record(target_agent, reason, arg, clinical) ==
    [from_agent |-> current_agent,
     to_agent |-> target_agent,
     reason |-> reason,
     cultural_context_ref |->
        IF Truthy(arg, cultural_context) THEN arg.ref ELSE "dict",
     cultural_context |->
        IF Truthy(arg, cultural_context) THEN arg.val ELSE EmptyDict,
     clinical_state |-> clinical]

(* What reading record["cultural_context"] gives: the dict stored at the   *)
(* switch, or, when the record holds the manager's own dict, that dict as  *)
(* it is now.                                                              *)
recorded_cultural_context(record, live) ==
    IF record.cultural_context_ref = "self" THEN live
    ELSE record.cultural_context

(* The fields of a SwitchRecord as a reader of agent_history sees them. *)
recorded_fields(record, live) ==
    [from_agent |-> record.from_agent,
     to_agent |-> record.to_agent,
     reason |-> record.reason,
     cultural_context |-> recorded_cultural_context(record, live),
     clinical_state |-> record.clinical_state]

(* The cultural context left unmerged before the callback. *)
unmerged_cultural_context(arg) == cultural_context

(* self.cultural_context after "if cultural_context: update(...)". *)
merged_cultural_context(arg) ==
    IF Truthy(arg, cultural_context)
    THEN Update(cultural_context, ContextValue(arg, cultural_context))
    ELSE cultural_context

(* The configuration of the persona being left. *)
stale_recreate_arguments(target_agent) ==
    [instructions |-> agents[current_agent].instructions,
     tools |-> agents[current_agent].tools]

(* The arguments the recreate callback is awaited with. *)
recreate_arguments(target_agent) ==
    [instructions |-> agents[target_agent].instructions,
     tools |-> agents[target_agent].tools]

(* The frame of a switch suspended in the recreate callback. *)
switch_frame(op, target_agent, reason, arg) ==
    [IdleFrame EXCEPT !.op = op, !.target_agent = target_agent,
                      !.reason = reason, !.cultural_context = arg,
                      !.previous_agent = current_agent]

(* switch_agent from its first line to its first suspension or its return. *)
(* op names the call the coroutine made: switch_agent itself, or the       *)
(* handle_crisis_escalation that ends in it; clinical is                   *)
(* self.clinical_state as switch_agent finds it.                           *)
switch_agent_body(t, op, target_agent, reason, arg, clinical) ==
    IF agent_not_registered(target_agent) THEN
        /\ returned' = Return(t, op, not_available_message(target_agent))
        /\ UNCHANGED <<current_agent, agent_history, cultural_context,
                       recreate_log, pc, frame>>
    ELSE IF agent_already_active(target_agent) THEN
        /\ returned' = Return(t, op, already_using_message(target_agent))
        /\ UNCHANGED <<current_agent, agent_history, cultural_context,
                       recreate_log, pc, frame>>
    ELSE
        /\ Len(agent_history) < MaxHistory
        /\ agent_history' =
              Append(agent_history,
                     switch_record(target_agent, reason, arg, clinical))
        /\ IF arg.ref = "json_string" THEN
              \* dict.update(<a str>) raises ValueError: the lines after it
              \* do not run and the exception leaves switch_agent.
              /\ returned' = Raise(t, op, <<"ValueError">>)
              /\ UNCHANGED <<current_agent, cultural_context, recreate_log,
                             pc, frame>>
           ELSE
              /\ cultural_context' = merged_cultural_context(arg)
              /\ current_agent' = target_agent
              /\ IF llm_recreate_callback THEN
                    /\ recreate_log' =
                          Append(recreate_log, recreate_arguments(target_agent))
                    /\ pc' = [pc EXCEPT ![t] = "recreate"]
                    /\ frame' = [frame EXCEPT
                                   ![t] = switch_frame(op, target_agent, reason, arg)]
                    /\ UNCHANGED returned
                 ELSE
                    /\ returned' =
                          Return(t, op,
                                 _generate_agent_switch_message(
                                     current_agent, target_agent, reason,
                                     ContextValue(arg, cultural_context')))
                    /\ UNCHANGED <<recreate_log, pc, frame>>

(* A switch_agent that resets the crisis flag on the way back to general. *)
switch_agent_clearing_crisis(t, target_agent, reason, arg) ==
    /\ pc[t] = "idle"
    /\ switch_agent_body(t, "switch_agent", target_agent, reason, arg, clinical_state)
    /\ clinical_state' =
          IF target_agent = "general_therapy" /\ "crisis_active" \in DOMAIN clinical_state
          THEN [clinical_state EXCEPT !["crisis_active"] = FALSE]
          ELSE clinical_state
    /\ UNCHANGED <<registration, surroundings>>

switch_agent(t, target_agent, reason, arg) ==
    /\ pc[t] = "idle"
    /\ switch_agent_body(t, "switch_agent", target_agent, reason, arg, clinical_state)
    /\ UNCHANGED <<clinical_state, registration, surroundings>>

(* An except clause that restores the previous persona. *)
rollback_recreate(t) ==
    /\ current_agent' = frame[t].previous_agent
    /\ UNCHANGED <<agent_history, cultural_context, clinical_state>>

(* The except clause around the awaited callback: the error is logged and  *)
(* nothing of the orchestrator is written.                                 *)
except_recreate(t) == UNCHANGED orchestrator

(* fresh_tools_schema: the definitions of every tool of the registry,      *)
(* whatever new_tools is.                                                  *)
fresh_tools_schema(new_tools) == Definitions(ToolKeys)

(* A service created with SYSTEM_INSTRUCTION, as the first one is. *)
recreate_with_system_instruction(new_system_instruction, new_tools) ==
    [instructions |-> Instruction("general_therapy"),
     tools |-> fresh_tools_schema(new_tools)]

(* The LLM service recreate_therapy_llm_callback puts in the pipeline. *)
recreate_therapy_llm_callback(new_system_instruction, new_tools) ==
    [instructions |-> new_system_instruction,
     tools |-> fresh_tools_schema(new_tools)]

(* The callback, suspended in the creation of the new LLM service, runs on *)
(* to its next await: it puts the new service in the pipeline.  The        *)
(* callback does not get here when it finds no service to replace or       *)
(* cannot create one (it returns), or when an exception leaves it earlier. *)
recreate_replaces(t) ==
    /\ pc[t] = "recreate"
    /\ remote_session' =
          recreate_therapy_llm_callback(
              agents[frame[t].target_agent].instructions,
              agents[frame[t].target_agent].tools)
    /\ pc' = [pc EXCEPT ![t] = "replaced"]
    /\ UNCHANGED <<orchestrator, registration, recreate_log, frame, returned,
                   handlers, deployment>>

(* The recreate callback returns (ok) or raises (not ok); the exception is *)
(* caught and logged, and either way the announcement is composed and      *)
(* returned.                                                               *)
switch_agent_resume(t, ok) ==
    /\ pc[t] \in {"recreate", "replaced"}
    /\ returned' =
          [Return(t, frame[t].op,
                  _generate_agent_switch_message(
                      frame[t].previous_agent, frame[t].target_agent,
                      frame[t].reason,
                      ContextValue(frame[t].cultural_context, cultural_context)))
           EXCEPT !.callback = IF ok THEN "ok" ELSE "failed"]
    /\ pc' = [pc EXCEPT ![t] = "idle"]
    /\ frame' = [frame EXCEPT ![t] = IdleFrame]
    /\ IF ok THEN UNCHANGED orchestrator ELSE except_recreate(t)
    /\ UNCHANGED <<registration, recreate_log, surroundings>>

(***************************************************************************)
(* handle_crisis_escalation, update_cultural_context, update_clinical_state*)
(***************************************************************************)
crisis_update(crisis_type, crisis_data) ==
    [k \in {"crisis_active", "crisis_type", "crisis_data", "crisis_timestamp"} |->
        CASE k = "crisis_active" -> TRUE
          [] k = "crisis_type" -> crisis_type
          [] k = "crisis_data" -> crisis_data
          [] k = "crisis_timestamp" -> "timestamp"]

already_handling_message ==
    <<"Crisis intervention agent already active and handling the situation.">>

(* An escalation that calls switch_agent whatever persona is active. *)
handle_crisis_escalation_always_switching(t, crisis_type, crisis_data) ==
    /\ pc[t] = "idle"
    /\ clinical_state' = Update(clinical_state, crisis_update(crisis_type, crisis_data))
    /\ switch_agent_body(t, "handle_crisis_escalation", "crisis_intervention",
                         "Crisis escalation: " \o crisis_type, SelfContext,
                         clinical_state')
    /\ UNCHANGED <<registration, surroundings>>

handle_crisis_escalation(t, crisis_type, crisis_data) ==
    /\ pc[t] = "idle"
    /\ clinical_state' = Update(clinical_state, crisis_update(crisis_type, crisis_data))
    /\ IF current_agent # "crisis_intervention" THEN
          switch_agent_body(t, "handle_crisis_escalation", "crisis_intervention",
                            "Crisis escalation: " \o crisis_type, SelfContext,
                            clinical_state')
       ELSE
          /\ returned' = Return(t, "handle_crisis_escalation", already_handling_message)
          /\ UNCHANGED <<current_agent, agent_history, cultural_context,
                         recreate_log, pc, frame>>
    /\ UNCHANGED <<registration, surroundings>>

(* cultural_updates is a dict, or a JSON string, for which dict.update raises. *)
update_cultural_context(t, arg) ==
    /\ pc[t] = "idle"
    /\ IF arg.ref = "json_string" THEN
          /\ returned' = Raise(t, "update_cultural_context", <<"ValueError">>)
          /\ UNCHANGED cultural_context
       ELSE
          /\ cultural_context' = Update(cultural_context, arg.val)
          /\ returned' = Return(t, "update_cultural_context", << >>)
    /\ UNCHANGED <<current_agent, agent_history, clinical_state, registration,
                   recreate_log, pc, frame, surroundings>>

update_clinical_state(t, clinical_updates) ==
    /\ pc[t] = "idle"
    /\ clinical_state' = Update(clinical_state, clinical_updates)
    /\ returned' = Return(t, "update_clinical_state", << >>)
    /\ UNCHANGED <<current_agent, agent_history, cultural_context, registration,
                   recreate_log, pc, frame, surroundings>>

(* A register_agent call on the running manager.  The assignments have no  *)
(* guard: an id registered before is overwritten.                          *)
register_agent_call(t, agent_name, instructions, tools, tool_instances) ==
    /\ pc[t] = "idle"
    /\ LET maps == register_agent([agents |-> agents, agent_tools |-> agent_tools],
                                  agent_name, instructions, tools, tool_instances)
       IN  /\ agents' = maps.agents
           /\ agent_tools' = maps.agent_tools
    /\ returned' = Return(t, "register_agent", << >>)
    /\ UNCHANGED <<orchestrator, llm_recreate_callback, recreate_log, pc, frame,
                   surroundings>>

(***************************************************************************)
(* The tool handlers, as far as dispatch sees them: the allow-list each    *)
(* execute validates against, the exception execute raises before its      *)
(* first await, and its suspension in log_clinical_action.                 *)
(***************************************************************************)
valid_actions(tool) ==
    CASE tool = "crisis_detection" ->
            <<"assess_risk", "monitor_indicators", "create_safety_plan",
              "escalate_emergency", "provide_immediate_support",
              "activate_cultural_protocols">>
      [] tool = "cbt_techniques" ->
            <<"thought_challenging", "behavioral_activation", "mood_monitoring",
              "cognitive_restructuring", "grounding_techniques",
              "islamic_cbt_integration", "gratitude_practice",
              "behavioral_experiment">>
      [] tool = "emotional_analysis" ->
            <<"detect_emotions", "track_patterns", "cultural_context_analysis",
              "emotional_intensity_assessment", "therapeutic_recommendations",
              "crisis_emotional_indicators">>
      [] tool = "session_management" ->
            <<"start_session", "end_session", "manage_consent", "update_notes",
              "set_emergency_contacts", "manage_privacy_settings",
              "track_therapeutic_goals", "document_progress",
              "handle_session_interruption", "export_session_summary">>

Range(seq) == {seq[i] : i \in 1..Len(seq)}

(* A validation that lets every name through. *)
accept_action(action, valid) == TRUE

validate_action(action, valid) == action \in Range(valid)

invalid_action_message(tool) ==
    (CASE tool = "crisis_detection" -> <<"Invalid crisis action. Use: ">>
       [] tool = "cbt_techniques" -> <<"Invalid CBT technique. Use: ">>
       [] tool = "emotional_analysis" -> <<"Invalid analysis type. Use: ">>
       [] tool = "session_management" -> <<"Invalid session action. Use: ">>)
    \o Join(valid_actions(tool))

(* The keyword arguments execute takes the len() of before it awaits. *)
measured_arguments(tool) ==
    CASE tool = "crisis_detection" -> {"user_input"}
      [] tool = "cbt_techniques" -> {"user_thoughts"}
      [] tool = "emotional_analysis" -> {"user_input"}
      [] tool = "session_management" -> {"emergency_contacts", "therapeutic_goals"}

(* len(None) raises TypeError. *)
execute_raises_early(tool, kwargs) ==
    \E k \in measured_arguments(tool) : Get(kwargs, k, "") = PyNone

type_error_message == <<"object of type 'NoneType' has no len()">>

(* The action of the entry execute logs once the name is validated. *)
execute_logged(tool, action) ==
    CASE tool = "crisis_detection" -> "crisis_detection_" \o action
      [] tool = "cbt_techniques" -> "cbt_" \o action
      [] tool = "emotional_analysis" -> "emotional_analysis_" \o action
      [] tool = "session_management" -> "session_management_" \o action

(* What a handler answers when it ran to its end. *)
handler_response(tool, action) == <<"response of ", tool, " to ", action>>

(***************************************************************************)
(* handle_function_call.                                                   *)
(***************************************************************************)
(* The arguments of a function call: a dict, or None. *)
DictArguments(d) == [none |-> FALSE, dict |-> Dict(d)]

NoneArguments == [none |-> TRUE, dict |-> EmptyDict]

(* The handler map of the general persona, whatever persona is active. *)
general_tools == Get(agent_tools, "general_therapy", EmptyDict)

(* current_tools: the handler map of the active persona. *)
current_tools == Get(agent_tools, current_agent, EmptyDict)

(* The handler key each function name is routed to. *)
routed_tool(function_name) ==
    CASE function_name = "detect_crisis" -> "crisis_detection"
      [] function_name = "apply_cbt_technique" -> "cbt_techniques"
      [] function_name = "analyze_emotion" -> "emotional_analysis"
      [] function_name = "manage_session" -> "session_management"

tool_bound(tool) == tool \in DOMAIN current_tools

tool_not_available_message(function_name) ==
    CASE function_name = "detect_crisis" ->
            <<"Crisis detection tool not available for current agent">>
      [] function_name = "apply_cbt_technique" ->
            <<"CBT techniques tool not available for current agent">>
      [] function_name = "analyze_emotion" ->
            <<"Emotional analysis tool not available for current agent">>
      [] function_name = "manage_session" ->
            <<"Session management tool not available for current agent">>

unknown_function_message(function_name) ==
    <<"Unknown therapeutic function: ", function_name,
      ". Available functions: detect_crisis, apply_cbt_technique, analyze_emotion, manage_session">>

error_message(e) == <<"Error executing therapeutic function: ">> \o e

(* The exception e leaving handle_function_call. *)
uncaught(t, e) == Raise(t, "handle_function_call", e)

(* The except clause of handle_function_call: the exception e, raised      *)
(* anywhere inside the try block, comes back as the error string.          *)
caught(t, e) == Return(t, "handle_function_call", error_message(e))

(* The discriminator taken from the arguments, with its aliases. *)
discriminator(function_name, arguments) ==
    CASE function_name = "detect_crisis" ->
            Get(arguments, "action", "assess_risk")
      [] function_name = "apply_cbt_technique" ->
            Get(arguments, "technique",
                Get(arguments, "action", "thought_challenging"))
      [] function_name = "analyze_emotion" ->
            Get(arguments, "analysis_type",
                Get(arguments, "action", "detect_emotions"))
      [] function_name = "manage_session" ->
            Get(arguments, "action", "update_progress")

(* Arguments forwarded with their alias keys. *)
all_arguments(function_name, arguments) == arguments

(* The keyword arguments forwarded to execute. *)
filtered_args(function_name, arguments) ==
    CASE function_name = "detect_crisis" -> Without(arguments, {"action"})
      [] function_name = "apply_cbt_technique" ->
            Without(arguments, {"technique", "action"})
      [] function_name = "analyze_emotion" ->
            Without(arguments, {"analysis_type", "action"})
      [] function_name = "manage_session" -> Without(arguments, {"action"})

execute_frame(tool, action, kwargs) ==
    [IdleFrame EXCEPT !.op = "handle_function_call", !.tool = tool,
                      !.action = action, !.kwargs = kwargs]

(* handle_function_call from its first line to the first suspension of the *)
(* handler, or to its return.                                              *)
handle_function_call(t, function_name, arguments) ==
    /\ pc[t] = "idle"
    /\ IF function_name \notin FunctionNames THEN
          /\ returned' = Return(t, "handle_function_call",
                                unknown_function_message(function_name))
          /\ UNCHANGED <<pc, frame>>
       ELSE IF ~tool_bound(routed_tool(function_name)) THEN
          /\ returned' = Return(t, "handle_function_call",
                                tool_not_available_message(function_name))
          /\ UNCHANGED <<pc, frame>>
       ELSE IF arguments.none THEN
          \* None.get raises AttributeError before execute is called
          /\ returned' = caught(t, <<"'NoneType' object has no attribute 'get'">>)
          /\ UNCHANGED <<pc, frame>>
       ELSE
          LET tool == routed_tool(function_name)
              instance == current_tools[tool]
              action == discriminator(function_name, arguments.dict)
              kwargs == filtered_args(function_name, arguments.dict)
          IN  IF ~validate_action(action, valid_actions(instance)) THEN
                 /\ returned' =
                       Through(instance,
                               Return(t, "handle_function_call",
                                      invalid_action_message(instance)))
                 /\ UNCHANGED <<pc, frame>>
              ELSE IF execute_raises_early(instance, kwargs) THEN
                 /\ returned' = Through(instance, caught(t, type_error_message))
                 /\ UNCHANGED <<pc, frame>>
              ELSE
                 /\ pc' = [pc EXCEPT ![t] = "execute"]
                 /\ frame' = [frame EXCEPT
                                ![t] = execute_frame(instance, action, kwargs)]
                 /\ UNCHANGED returned
    /\ UNCHANGED <<orchestrator, registration, recreate_log, surroundings>>

(***************************************************************************)
(* CrisisDetectionTool.  user_input is a string; its lowercased text is    *)
(* read as a sequence of words, and "keyword in user_lower" as the keyword *)
(* occurring in it word by word.  The Arabic keywords are left out.        *)
(***************************************************************************)
EndMyLife == "I want to end my life"

TiredToday == "I feel tired today"

user_lower(user_input) ==
    CASE user_input = EndMyLife -> <<"i", "want", "to", "end", "my", "life">>
      [] user_input = TiredToday -> <<"i", "feel", "tired", "today">>
      [] OTHER -> << >>

crisis_keywords ==
    { <<"suicide">>, <<"kill", "myself">>, <<"end", "it", "all">>,
      <<"no", "point", "living">>, <<"hurt", "myself">>, <<"overdose">>,
      <<"jump">>, <<"cut", "myself">>, <<"die">>, <<"death">>,
      <<"can't", "go", "on">>, <<"better", "off", "dead">>,
      <<"want", "to", "disappear">>, <<"end", "my", "life">>,
      <<"not", "worth", "living">> }

(* keyword in text *)
Occurs(keyword, text) ==
    \E i \in 1..Len(text) :
        /\ i + Len(keyword) - 1 <= Len(text)
        /\ SubSeq(text, i, i + Len(keyword) - 1) = keyword

(* What check_crisis_indicators returns; when it is True the flag is set. *)
check_crisis_indicators(user_input) ==
    /\ user_input # ""
    /\ \E keyword \in crisis_keywords : Occurs(keyword, user_lower(user_input))

(* The patterns of _monitor_crisis_indicators, the English ones. *)
crisis_patterns ==
    { <<"suicide">>, <<"kill", "myself">>, <<"end", "it", "all">>,
      <<"no", "point", "living">>, <<"cut", "myself">>, <<"hurt", "myself">>,
      <<"self", "harm">>, <<"overdose">>, <<"hopeless">>,
      <<"nothing", "matters">>, <<"give", "up">>, <<"no", "future">>,
      <<"nobody", "cares">>, <<"all", "alone">>, <<"no", "friends">>,
      <<"isolated">> }

high_risk_factors ==
    {"previous_attempts", "substance_abuse", "social_isolation", "recent_loss",
     "access_to_means", "specific_plan"}

moderate_risk_factors ==
    {"hopelessness", "depression", "anxiety", "family_conflict",
     "financial_stress", "health_problems"}

(* A score that gives every listed factor one point. *)
count_risk_factors(risk_factors) ==
    Cardinality({i \in DOMAIN risk_factors :
                    risk_factors[i] \in high_risk_factors \cup moderate_risk_factors})

RECURSIVE risk_score(_)
risk_score(risk_factors) ==
    IF risk_factors = << >> THEN 0
    ELSE (CASE Head(risk_factors) \in high_risk_factors -> 3
            [] Head(risk_factors) \in moderate_risk_factors -> 1
            [] OTHER -> 0)
         + risk_score(Tail(risk_factors))

(* The level _assess_suicide_risk assigns. *)
risk_level(user_input, risk_factors) ==
    IF risk_score(risk_factors) >= 6 \/ check_crisis_indicators(user_input)
    THEN "imminent"
    ELSE IF risk_score(risk_factors) >= 4 THEN "high"
    ELSE IF risk_score(risk_factors) >= 2 THEN "moderate"
    ELSE "low"

(* A protocol that a second activation switches off again. *)
toggle_emergency_protocol(tool) ==
    [tool EXCEPT !.emergency_escalation_needed = ~@]

(* trigger_emergency_protocol: the flag is set, the action is logged and   *)
(* the client is told.  Nothing outside the tool is called.                *)
trigger_emergency_protocol(tool) ==
    [tool EXCEPT !.emergency_escalation_needed = TRUE]

(* _escalate_emergency: the protocol above and a command to the client.    *)
(* self.escalation_callback, which setup_therapeutic_tools binds to        *)
(* handle_crisis_escalation, is read nowhere.                              *)
_escalate_emergency(tool) == trigger_emergency_protocol(tool)

(* An assessment that leaves the escalation to a later call. *)
_assess_without_escalation(tool, user_input, risk_factors) ==
    [tool EXCEPT
        !.crisis_detected =
            tool.crisis_detected \/ check_crisis_indicators(user_input),
        !.current_risk_level = risk_level(user_input, risk_factors)]

_assess_suicide_risk(tool, user_input, risk_factors) ==
    LET detected == check_crisis_indicators(user_input)
        assessed ==
            [tool EXCEPT
                !.crisis_detected = tool.crisis_detected \/ detected,
                !.current_risk_level = risk_level(user_input, risk_factors)]
    IN  IF assessed.current_risk_level = "imminent"
        THEN _escalate_emergency(assessed)
        ELSE assessed

_monitor_crisis_indicators(tool, user_input) ==
    IF \E pattern \in crisis_patterns : Occurs(pattern, user_lower(user_input))
    THEN [tool EXCEPT !.crisis_detected = TRUE]
    ELSE tool

(* The entries the methods of the crisis tool log after the entry of       *)
(* execute: check_crisis_indicators logs the keyword it found, and         *)
(* trigger_emergency_protocol logs every activation.                       *)
crisis_logged(action, kwargs) ==
    LET user_input == Get(kwargs, "user_input", "")
        risk_factors == Get(kwargs, "risk_factors", << >>)
    IN  CASE action = "assess_risk" ->
                (IF check_crisis_indicators(user_input)
                 THEN <<"crisis_indicator_detected">> ELSE << >>)
                \o (IF risk_level(user_input, risk_factors) = "imminent"
                    THEN <<"emergency_protocol_activated">> ELSE << >>)
          [] action = "escalate_emergency" -> <<"emergency_protocol_activated">>
          [] OTHER -> << >>

(* CrisisDetectionTool.execute after its first await: the tool it leaves. *)
crisis_execute(tool, action, kwargs) ==
    LET user_input == Get(kwargs, "user_input", "")
        risk_factors == Get(kwargs, "risk_factors", << >>)
    IN  CASE action = "assess_risk" ->
                _assess_suicide_risk(tool, user_input, risk_factors)
          [] action = "monitor_indicators" ->
                _monitor_crisis_indicators(tool, user_input)
          [] action = "create_safety_plan" ->
                [tool EXCEPT !.safety_plan_created = TRUE]
          [] action = "escalate_emergency" -> _escalate_emergency(tool)
          [] OTHER -> tool

(***************************************************************************)
(* SessionManagementTool.  A list argument arrives as JSON text and is     *)
(* named here by a string; goals_list and contacts_list give the list.     *)
(* An outcome of a method is the tool it leaves, whether an exception left *)
(* it, and its answer or the text of the exception.                        *)
(***************************************************************************)
goals_list(therapeutic_goals) ==
    CASE therapeutic_goals = "sleep" -> <<"Sleep through the night">>
      [] therapeutic_goals = "mood" -> <<"Improve mood stability">>
      [] OTHER -> << >>

contacts_list(emergency_contacts) ==
    CASE emergency_contacts = "brother" ->
            <<[name |-> "Salim", phone |-> "9681", relationship |-> "sibling"]>>
      [] emergency_contacts = "friend" ->
            <<[name |-> "Huda", phone |-> "9682", relationship |-> "emergency_contact"]>>
      [] emergency_contacts = "no_phone" ->
            <<[name |-> "Nasser", phone |-> "", relationship |-> "emergency_contact"]>>
      [] OTHER -> << >>

Answered(tool, response) == [tool |-> tool, raised |-> FALSE, response |-> response]

Raised(tool, exception) == [tool |-> tool, raised |-> TRUE, response |-> exception]

(* A log that keeps its latest entry only. *)
latest_clinical_action(tool, action) ==
    [tool EXCEPT !.session_clinical_log = <<action>>]

(* log_clinical_action up to its first await: the entry is appended. *)
log_clinical_action(tool, action) ==
    [tool EXCEPT !.session_clinical_log = Append(@, action)]

(* datetime.now(), as the number of clinical actions logged. *)
now(tool) == Len(tool.session_clinical_log)

already_active_message ==
    <<"A session is already active. Please end the current session before starting a new one.">>

no_session_to_end_message == <<"No active session to end.">>

no_session_to_interrupt_message == <<"No active session to handle interruption for.">>

(* A _start_session that starts over whatever the state. *)
never_active(tool) == FALSE

(* The guard of _start_session. *)
session_already_active(tool) == tool.session_active

_start_session(tool, consent_details, cultural_preferences) ==
    IF session_already_active(tool) THEN Answered(tool, already_active_message)
    ELSE
        LET preferences == Update(tool.cultural_preferences, cultural_preferences)
            consent == Update(tool.consent_status, consent_details)
            started ==
                [tool EXCEPT
                    !.session_start_time = now(tool),
                    !.session_active = TRUE,
                    !.session_notes = << >>,
                    !.session_outcomes = EmptyDict,
                    !.cultural_preferences = preferences,
                    !.consent_status = consent,
                    !.current_session =
                        [session_id |-> now(tool),
                         start_time |-> now(tool),
                         consent_status |-> consent,
                         cultural_preferences |-> preferences,
                         therapeutic_goals |-> tool.therapeutic_goals,
                         privacy_level |-> tool.privacy_level]]
            greeting ==
                IF Get(cultural_preferences, "preferred_language", "") = "arabic"
                THEN <<"[ar: Welcome to the voice therapy session]",
                       "Welcome to your voice therapy session.">>
                ELSE <<"Welcome to your therapeutic voice session with OMANI Therapist Voice.">>
            consent_info ==
                <<"Before we begin, let me review our privacy and consent:",
                  IF Get(consent, "recording_consent", FALSE)
                  THEN "Session recording: Consented"
                  ELSE "Session recording: Not consented",
                  IF Get(consent, "data_storage_consent", FALSE)
                  THEN "Clinical data storage: Consented"
                  ELSE "Clinical data storage: Not consented">>
        IN  Answered(started, greeting \o consent_info)

(* _generate_session_summary, called while the session is active. *)
_generate_session_summary(tool) ==
    <<"Session duration">>
    \o (IF tool.therapeutic_goals # << >>
        THEN <<"Therapeutic goals worked on: ", ToString(Len(tool.therapeutic_goals))>>
        ELSE << >>)
    \o (IF tool.session_notes # << >>
        THEN <<"Clinical observations recorded: ", ToString(Len(tool.session_notes))>>
        ELSE << >>)
    \o (IF tool.progress_markers # << >>
        THEN <<"Progress documented: ", ToString(Len(tool.progress_markers))>>
        ELSE << >>)
    \o (IF tool.crisis_detected
        THEN <<"Crisis indicators were addressed">> ELSE << >>)
    \o (IF DOMAIN tool.cultural_preferences # {}
        THEN <<"Cultural preferences were incorporated">> ELSE << >>)

(* _suggest_next_session_timing.  SessionManagementTool has no attribute   *)
(* current_emotional_state (EmotionalAnalysisTool has), so the second      *)
(* condition raises AttributeError when it is evaluated.                   *)
_suggest_next_session_timing(tool) ==
    IF tool.crisis_detected \/ tool.emergency_escalation_needed
    THEN Answered(tool, <<"Within 24-48 hours (urgent follow-up)">>)
    ELSE Raised(tool, <<"'SessionManagementTool' object has no attribute 'current_emotional_state'">>)

_end_session(tool, final_notes) ==
    IF ~tool.session_active THEN Answered(tool, no_session_to_end_message)
    ELSE
        LET notes ==
                IF final_notes # ""
                THEN Append(tool.session_notes,
                            [type |-> "final_notes", content |-> final_notes])
                ELSE tool.session_notes
            record ==
                Update(tool.current_session,
                       [end_time |-> now(tool),
                        session_notes |-> notes,
                        therapeutic_goals_addressed |-> tool.therapeutic_goals,
                        progress_markers |-> tool.progress_markers,
                        session_outcomes |-> tool.session_outcomes])
            finalized ==
                [tool EXCEPT !.session_notes = notes,
                             !.current_session = record,
                             !.session_history = Append(@, record)]
            summary == _generate_session_summary(finalized)
            timing == _suggest_next_session_timing(finalized)
        IN  IF timing.raised THEN Raised(finalized, timing.response)
            ELSE Answered([finalized EXCEPT !.session_active = FALSE,
                                            !.current_session = EmptyDict,
                                            !.session_notes = << >>,
                                            !.progress_markers = << >>,
                                            !.session_outcomes = EmptyDict],
                          <<"Thank you for sharing in this therapeutic session.",
                            "Session Summary:">> \o summary)

_manage_consent(tool, consent_details) ==
    IF DOMAIN consent_details = {}
    THEN Answered(tool, <<"Current consent status:">>)
    ELSE
        LET changed ==
                \E key \in DOMAIN consent_details :
                    Get(tool.consent_status, key, FALSE) # consent_details[key]
            updated ==
                [tool EXCEPT !.consent_status = Update(@, consent_details)]
        IN  Answered(IF changed THEN log_clinical_action(updated, "consent_updated")
                     ELSE updated,
                     <<"Thank you for updating your consent preferences.">>)

_update_session_notes(tool, notes) ==
    IF notes = "" THEN Answered(tool, <<"Please provide notes to add to the session.">>)
    ELSE Answered(
            log_clinical_action(
                [tool EXCEPT !.session_notes =
                    Append(@, [type |-> "clinical_note", content |-> notes])],
                "session_notes_updated"),
            <<"Session notes have been updated with your clinical observations.">>)

(* The contacts that have a name and a phone. *)
RECURSIVE valid_contacts(_)
valid_contacts(contacts) ==
    IF contacts = << >> THEN << >>
    ELSE (IF Head(contacts).name # "" /\ Head(contacts).phone # ""
          THEN <<Head(contacts)>> ELSE << >>)
         \o valid_contacts(Tail(contacts))

(* Contacts added to the ones already stored. *)
merged_contacts(tool, contacts) == tool.emergency_contacts \o valid_contacts(contacts)

(* self.emergency_contacts = valid_contacts *)
stored_contacts(tool, contacts) == valid_contacts(contacts)

_set_emergency_contacts(tool, contacts) ==
    IF contacts = << >>
    THEN Answered(tool, <<"Please provide emergency contact information.">>)
    ELSE Answered(
            log_clinical_action(
                [tool EXCEPT !.emergency_contacts = stored_contacts(tool, contacts)],
                "emergency_contacts_updated"),
            <<"Emergency contacts have been securely stored (",
              ToString(Len(valid_contacts(contacts))), " contacts).">>)

_manage_privacy_settings(tool, privacy_level) ==
    IF privacy_level \notin {"minimal", "standard", "high", "maximum"}
    THEN Answered(tool, <<"Invalid privacy level. Choose from: minimal, standard, high, maximum">>)
    ELSE Answered(
            log_clinical_action([tool EXCEPT !.privacy_level = privacy_level],
                                "privacy_settings_updated"),
            <<"Privacy level updated to: ", privacy_level>>)

_track_therapeutic_goals(tool, goals) ==
    IF goals = << >> THEN
        Answered(tool,
                 IF tool.therapeutic_goals # << >>
                 THEN <<"Current therapeutic goals:">> \o tool.therapeutic_goals
                 ELSE <<"No therapeutic goals currently set.">>)
    ELSE Answered(
            log_clinical_action([tool EXCEPT !.therapeutic_goals = goals],
                                "therapeutic_goals_updated"),
            <<"Therapeutic goals have been established for our work together.">>
                \o goals)

_document_progress(tool, progress_notes) ==
    IF progress_notes = ""
    THEN Answered(tool, <<"Please provide progress notes to document.">>)
    ELSE Answered(
            log_clinical_action(
                [tool EXCEPT
                    !.progress_markers =
                        Append(@, [progress_notes |-> progress_notes,
                                   session_context |->
                                       Get(tool.current_session, "session_id", 0),
                                   therapeutic_goals_addressed |->
                                       tool.therapeutic_goals]),
                    !.session_outcomes =
                        Update(@, [progress_documented |-> TRUE])],
                "progress_documented"),
            <<"Therapeutic progress has been documented.">>)

_handle_session_interruption(tool) ==
    IF ~tool.session_active
    THEN Answered(tool, no_session_to_interrupt_message)
    ELSE
        LET record ==
                Update(tool.current_session,
                       [interruption_record |->
                           [timestamp |-> now(tool),
                            emergency_protocols_activated |->
                                tool.emergency_escalation_needed]])
            saved ==
                log_clinical_action(
                    [tool EXCEPT !.current_session = record,
                                 !.session_history = Append(@, record)],
                    "session_interrupted")
        IN  Answered([saved EXCEPT !.session_active = FALSE],
                     <<"Session was interrupted.">>)

(* The summary export sends to the client: the counts it reports. *)
exported_summary(tool) ==
    [progress_markers |-> Len(tool.progress_markers),
     clinical_observations |-> Len(tool.session_notes),
     therapeutic_goals |-> tool.therapeutic_goals,
     emergency_contacts_set |-> tool.emergency_contacts # << >>]

(* An export that files the current session in the history. *)
_export_and_archive(tool) ==
    Answered([tool EXCEPT !.session_history = Append(@, tool.current_session)],
             <<"Session summary has been generated and exported.">>)

_export_session_summary(tool) ==
    IF tool.session_history = << >> /\ ~tool.session_active
    THEN Answered(tool, <<"No session data available to export.">>)
    ELSE Answered(tool, <<"Session summary has been generated and exported.">>)

(* SessionManagementTool.execute after the suspension of its first         *)
(* log_clinical_action, whose entry is in the log already.                 *)
session_execute(tool, action, kwargs) ==
    LET consent_details == Get(kwargs, "consent_details", EmptyDict)
        emergency_contacts == contacts_list(Get(kwargs, "emergency_contacts", ""))
        cultural_preferences == Get(kwargs, "cultural_preferences", EmptyDict)
        therapeutic_goals == goals_list(Get(kwargs, "therapeutic_goals", ""))
        session_notes == Get(kwargs, "session_notes", "")
        privacy_level == Get(kwargs, "privacy_level", "high")
    IN  CASE action = "start_session" ->
                _start_session(tool, consent_details, cultural_preferences)
          [] action = "end_session" -> _end_session(tool, session_notes)
          [] action = "manage_consent" -> _manage_consent(tool, consent_details)
          [] action = "update_notes" -> _update_session_notes(tool, session_notes)
          [] action = "set_emergency_contacts" ->
                _set_emergency_contacts(tool, emergency_contacts)
          [] action = "manage_privacy_settings" ->
                _manage_privacy_settings(tool, privacy_level)
          [] action = "track_therapeutic_goals" ->
                _track_therapeutic_goals(tool, therapeutic_goals)
          [] action = "document_progress" -> _document_progress(tool, session_notes)
          [] action = "handle_session_interruption" ->
                _handle_session_interruption(tool)
          [] action = "export_session_summary" -> _export_session_summary(tool)

(* A crisis handler that calls the escalation it was given. *)
handler_escalates(t) ==
    /\ current_agent' = IF frame[t].tool = "crisis_detection"
                        THEN "crisis_intervention" ELSE current_agent
    /\ UNCHANGED <<agent_history, cultural_context, clinical_state, registration,
                   recreate_log>>

(* What the handlers do to the manager that dispatched to them: nothing.   *)
(* No handler holds the manager; the crisis handler is given               *)
(* handle_crisis_escalation as its escalation_callback and never calls it. *)
handler_callbacks(t) == UNCHANGED <<orchestrator, registration, recreate_log>>

(* The handler runs on from its suspension: it returns its answer, or an   *)
(* exception leaves execute and is turned into the error string.  With     *)
(* raises the exception leaves at the suspension, before the handler wrote *)
(* anything but the log entry; an exception of the handler's own code      *)
(* leaves where that code raises it.                                       *)
handle_function_call_resume(t, raises) ==
    /\ pc[t] = "execute"
    /\ crisis_tool' =
          IF ~raises /\ frame[t].tool = "crisis_detection"
          THEN crisis_execute(crisis_tool, frame[t].action, frame[t].kwargs)
          ELSE crisis_tool
    /\ UNCHANGED <<remote_session, deployment>>
    /\ LET logged ==
               log_clinical_action(session_tool,
                                   execute_logged(frame[t].tool, frame[t].action))
           outcome == session_execute(logged, frame[t].action, frame[t].kwargs)
       IN  IF frame[t].tool = "session_management" THEN
              /\ session_tool' = IF raises THEN logged ELSE outcome.tool
              /\ returned' =
                    Logging(
                        SubSeq(session_tool'.session_clinical_log,
                               Len(session_tool.session_clinical_log) + 1,
                               Len(session_tool'.session_clinical_log)),
                        Through(frame[t].tool,
                                IF raises THEN caught(t, <<"handler exception">>)
                                ELSE IF outcome.raised
                                THEN caught(t, outcome.response)
                                ELSE Return(t, "handle_function_call",
                                            outcome.response)))
           ELSE
              /\ session_tool' = session_tool
              /\ returned' =
                    Logging(
                        <<execute_logged(frame[t].tool, frame[t].action)>>
                        \o (IF ~raises /\ frame[t].tool = "crisis_detection"
                            THEN crisis_logged(frame[t].action, frame[t].kwargs)
                            ELSE << >>),
                        Through(frame[t].tool,
                                IF raises THEN caught(t, <<"handler exception">>)
                                ELSE Return(t, "handle_function_call",
                                            handler_response(frame[t].tool,
                                                             frame[t].action))))
    /\ pc' = [pc EXCEPT ![t] = "idle"]
    /\ frame' = [frame EXCEPT ![t] = IdleFrame]
    /\ handler_callbacks(t)

(***************************************************************************)
(* get_recommended_agent.  A text is the sequence of its characters, so    *)
(* that "keyword in input_lower" is substring containment; the argument is *)
(* a text or None.  The Arabic keywords are left out.                      *)
(***************************************************************************)
NoneText == [none |-> TRUE, text |-> << >>]

Text(characters) == [none |-> FALSE, text |-> characters]

KillMyself ==
    <<"I", " ", "w", "a", "n", "t", " ", "t", "o", " ", "k", "i", "l", "l",
      " ", "m", "y", "s", "e", "l", "f">>

ImSoAnxious ==
    <<"I", "'", "m", " ", "s", "o", " ", "a", "n", "x", "i", "o", "u", "s">>

Panicking ==
    <<"P", "A", "N", "I", "C", "K", "I", "N", "G", " ", "a", "g", "a", "i",
      "n">>

WorriedHurt ==
    <<"w", "o", "r", "r", "i", "e", "d", " ", "I", " ", "w", "i", "l", "l",
      " ", "h", "u", "r", "t", " ", "m", "y", "s", "e", "l", "f">>

CantStop ==
    <<"C", "a", "n", "'", "t", " ", "s", "t", "o", "p", " ", "t", "h", "i",
      "n", "k", "i", "n", "g">>

NiceWeather ==
    <<"n", "i", "c", "e", " ", "w", "e", "a", "t", "h", "e", "r">>

(* The crisis keywords of get_recommended_agent, the English ones. *)
agent_crisis_keywords ==
    { <<"s", "u", "i", "c", "i", "d", "e">>,
      <<"k", "i", "l", "l", " ", "m", "y", "s", "e", "l", "f">>,
      <<"e", "n", "d", " ", "i", "t", " ", "a", "l", "l">>,
      <<"h", "u", "r", "t", " ", "m", "y", "s", "e", "l", "f">> }

(* Its anxiety keywords, the English ones. *)
anxiety_keywords ==
    { <<"p", "a", "n", "i", "c">>,
      <<"a", "n", "x", "i", "e", "t", "y">>,
      <<"w", "o", "r", "r", "i", "e", "d">>,
      <<"s", "t", "r", "e", "s", "s", "e", "d">>,
      <<"o", "v", "e", "r", "t", "h", "i", "n", "k", "i", "n", "g">> }

(* Its cognitive keywords, the English ones. *)
cognitive_keywords ==
    { <<"t", "h", "o", "u", "g", "h", "t", "s">>,
      <<"t", "h", "i", "n", "k", "i", "n", "g">>,
      <<"c", "a", "n", "'", "t", " ", "s", "t", "o", "p">>,
      <<"r", "u", "m", "i", "n", "a", "t", "i", "n", "g">>,
      <<"n", "e", "g", "a", "t", "i", "v", "e", " ", "t", "h", "o", "u", "g", "h", "t", "s">> }

Uppercase ==
    <<"A", "B", "C", "D", "E", "F", "G", "H", "I", "J", "K", "L", "M", "N",
      "O", "P", "Q", "R", "S", "T", "U", "V", "W", "X", "Y", "Z">>

Lowercase ==
    <<"a", "b", "c", "d", "e", "f", "g", "h", "i", "j", "k", "l", "m", "n",
      "o", "p", "q", "r", "s", "t", "u", "v", "w", "x", "y", "z">>

(* The lowercase letter of every capital. *)
lower_letter ==
    [c \in Range(Uppercase) |->
        Lowercase[CHOOSE j \in DOMAIN Uppercase : Uppercase[j] = c]]

(* str.lower() *)
lower(text) ==
    [i \in DOMAIN text |->
        IF text[i] \in DOMAIN lower_letter THEN lower_letter[text[i]]
        ELSE text[i]]

(* A recommendation that goes by the text alone. *)
recommend_by_text(user_input, current_state) ==
    IF user_input.none \/ user_input.text = << >> THEN "general_therapy"
    ELSE LET input_lower == lower(user_input.text)
         IN  IF \E keyword \in agent_crisis_keywords : Occurs(keyword, input_lower)
             THEN "crisis_intervention"
             ELSE IF \E keyword \in anxiety_keywords \cup cognitive_keywords :
                        Occurs(keyword, input_lower)
             THEN "cbt_specialist"
             ELSE "general_therapy"

get_recommended_agent(user_input, current_state) ==
    IF user_input.none \/ user_input.text = << >> THEN "general_therapy"
    ELSE LET input_lower == lower(user_input.text)
         IN  IF \E keyword \in agent_crisis_keywords : Occurs(keyword, input_lower)
             THEN "crisis_intervention"
             ELSE IF \E keyword \in anxiety_keywords : Occurs(keyword, input_lower)
             THEN (IF Get(current_state, "crisis_active", FALSE) = TRUE
                   THEN "crisis_intervention"
                   ELSE "cbt_specialist")
             ELSE IF \E keyword \in cognitive_keywords : Occurs(keyword, input_lower)
             THEN "cbt_specialist"
             ELSE "general_therapy"

(* A call of get_recommended_agent on the running manager.  It reads       *)
(* nothing of self and writes nothing.                                     *)
get_recommended_agent_call(t, user_input, current_state) ==
    /\ pc[t] = "idle"
    /\ returned' = Return(t, "get_recommended_agent",
                          <<get_recommended_agent(user_input, current_state)>>)
    /\ UNCHANGED <<orchestrator, registration, recreate_log, pc, frame,
                   surroundings>>

(***************************************************************************)
(* The process of main.py with several /ws connections.  Of each           *)
(* connection's manager only the active persona is kept, and of its tool   *)
(* instances only the crisis tool's crisis_detected flag; a switch is      *)
(* taken as a whole, with the outcome of its recreate callback.            *)
(***************************************************************************)
(* run_therapy_bot up to the registrations: a new manager, which the       *)
(* module global is rebound to, new tool instances, which replace the      *)
(* registry's, and an LLM service whose function handler reads the global. *)
run_therapy_bot(c) ==
    /\ ~connection[c].connected
    /\ connection' =
          [connection EXCEPT
              ![c] = [connected |-> TRUE, current_agent |-> "general_therapy",
                      function_handler |-> "global", crisis_detected |-> FALSE]]
    /\ therapy_agent_manager' = c
    /\ active_tools' = c
    /\ global_tool_registry' =
          [_tool_classes |-> [k \in ToolKeys |-> k],
           _active_tools |-> [k \in ToolKeys |-> tool_class(k, c, c)]]
    /\ UNCHANGED <<dispatched, aside>>

(* The manager a connection's function handler calls: the handler          *)
(* registered by run_therapy_bot reads the module global when it is        *)
(* called, the one registered by the recreate callback holds the           *)
(* connection's own instance.                                              *)
handler_manager(c) ==
    IF connection[c].function_handler = "global"
    THEN therapy_agent_manager
    ELSE c

(* The handlers a manager binds for a persona, as run_therapy_bot          *)
(* registers them.                                                         *)
bound_for(persona, tool) == tool \in DOMAIN MainSetup.agent_tools[persona]

(* A function call of the remote session of connection c.  A detect_crisis *)
(* call that is served finds a crisis keyword.                             *)
function_call(c, function_name) ==
    /\ connection[c].connected
    /\ LET m == handler_manager(c)
           served == bound_for(connection[m].current_agent,
                               routed_tool(function_name))
       IN  /\ dispatched' =
                 [caller |-> c, manager |-> m, instances |-> m,
                  function_name |-> function_name, available |-> served]
           /\ connection' =
                 IF served /\ function_name = "detect_crisis"
                 THEN [connection EXCEPT ![m].crisis_detected = TRUE]
                 ELSE connection
    /\ UNCHANGED <<therapy_agent_manager, active_tools, global_tool_registry,
                   aside>>

(* A switch_agent command of a /ws/tools client: it goes to the manager    *)
(* the module global names.  When the recreate callback of that manager    *)
(* replaces the LLM service, the new service's function handler holds the  *)
(* manager's instance.                                                     *)
command_switch_agent(target_agent, replaced) ==
    /\ therapy_agent_manager # NoConnection
    /\ LET m == therapy_agent_manager
       IN  connection' =
              IF target_agent = connection[m].current_agent
              THEN connection
              ELSE [connection EXCEPT
                       ![m].current_agent = target_agent,
                       ![m].function_handler =
                           IF replaced THEN "instance" ELSE @]
    /\ UNCHANGED <<therapy_agent_manager, active_tools, dispatched,
                   global_tool_registry, aside>>

(* check_crisis_status of the registry: it reads the flags of the          *)
(* instances the registry holds, which are those of the connection that    *)
(* called create_tool last.                                                *)
check_crisis_status(tools, connections) ==
    LET crisis == tools # NoConnection /\ connections[tools].crisis_detected
    IN  [any_crisis_detected |-> crisis,
         tools_with_crisis |->
            IF crisis THEN <<"crisis_detection">> ELSE << >>]

(* reset_all_crisis_flags: the flags of the instances the registry holds. *)
reset_all_crisis_flags ==
    /\ connection' =
          IF active_tools = NoConnection THEN connection
          ELSE [connection EXCEPT ![active_tools].crisis_detected = FALSE]
    /\ UNCHANGED <<therapy_agent_manager, active_tools, dispatched,
                   global_tool_registry, aside>>

(* register_tool: a class that does not inherit from BaseTool is refused   *)
(* with a ValueError.                                                      *)
register_tool(tool_name, class, is_base_tool) ==
    IF ~is_base_tool
    THEN /\ returned' = Raise(Pipeline, "register_tool", <<"ValueError">>)
         /\ UNCHANGED global_tool_registry
    ELSE /\ global_tool_registry' =
               [global_tool_registry EXCEPT
                   !._tool_classes = Update(@, [n \in {tool_name} |-> class])]
         /\ returned' = Return(Pipeline, "register_tool", << >>)

(* get_tool *)
get_tool(registry, tool_name) == Get(registry._active_tools, tool_name, NoInstance)

(* A create_tool that takes the slot before it calls the constructor. *)
create_tool_clearing_slot(registry, tool_name, rtvi_processor, task, raises) ==
    IF tool_name \notin DOMAIN registry._tool_classes
    THEN [registry |-> registry, value |-> NoInstance]
    ELSE IF raises
    THEN [registry |->
             [registry EXCEPT !._active_tools = Without(@, {tool_name})],
          value |-> NoInstance]
    ELSE LET tool_instance ==
                 tool_class(registry._tool_classes[tool_name], rtvi_processor, task)
         IN  [registry |->
                 [registry EXCEPT
                     !._active_tools =
                         Update(@, [n \in {tool_name} |-> tool_instance])],
              value |-> tool_instance]

(* create_tool, as a function of the registry: the registry it leaves and  *)
(* what it returns.  raises says whether the constructor raises.           *)
create_tool(registry, tool_name, rtvi_processor, task, raises) ==
    IF tool_name \notin DOMAIN registry._tool_classes
    THEN [registry |-> registry, value |-> NoInstance]
    ELSE IF raises
    THEN [registry |-> registry, value |-> NoInstance]
    ELSE LET tool_instance ==
                 tool_class(registry._tool_classes[tool_name], rtvi_processor, task)
         IN  [registry |->
                 [registry EXCEPT
                     !._active_tools =
                         Update(@, [n \in {tool_name} |-> tool_instance])],
              value |-> tool_instance]

(* A create_tool call on the registry of the process. *)
create_tool_call(tool_name, rtvi_processor, task, raises) ==
    LET outcome == create_tool(global_tool_registry, tool_name, rtvi_processor,
                               task, raises)
    IN  /\ global_tool_registry' = outcome.registry
        /\ returned' = Return(Pipeline, "create_tool", <<outcome.value>>)

(* set_task_for_all_tools *)
set_task_for_all_tools(task) ==
    /\ global_tool_registry' =
          [global_tool_registry EXCEPT
              !._active_tools = [n \in DOMAIN @ |-> [@[n] EXCEPT !.task = task]]]
    /\ returned' = Return(Pipeline, "set_task_for_all_tools", << >>)

(* setup_therapeutic_tools: the four classes are registered, an instance   *)
(* of each is created for the connection's processor, and the dict of the  *)
(* results is returned, None included.  failing names the tools whose      *)
(* constructor raises.                                                     *)
setup_therapeutic_tools(registry, rtvi_processor, failing) ==
    LET registered ==
            [registry EXCEPT !._tool_classes = Update(@, [k \in ToolKeys |-> k])]
        created(k) ==
            create_tool(registered, k, rtvi_processor, NoTask, k \in failing)
        kept(k) == IF created(k).value = NoInstance
                   THEN {} ELSE {k}
    IN  [registry |->
            [registered EXCEPT
                !._active_tools =
                    Update(@, [k \in UNION {kept(n) : n \in ToolKeys} |->
                                  created(k).value])],
         tool_instances |-> [k \in ToolKeys |-> created(k).value]]

(* The three register_agent calls of run_therapy_bot, on a manager that    *)
(* has no persona yet.  The arguments of a call are evaluated first:       *)
(* get_tool_definition on a None of tool_instances is an AttributeError,   *)
(* which ends the registrations where it occurs.                           *)
register_therapeutic_agents(tool_instances) ==
    LET uses == [n \in AgentNames |->
                    CASE n = "general_therapy" -> ToolKeys
                      [] n = "crisis_intervention" ->
                            {"crisis_detection", "session_management"}
                      [] n = "cbt_specialist" ->
                            {"cbt_techniques", "emotional_analysis"}]
        none(n) == \E k \in uses[n] : tool_instances[k] = NoInstance
        call(maps, n) ==
            register_agent(maps, n, Instruction(n), Definitions(uses[n]),
                           Instances(uses[n]))
        a == call(NoAgents, "general_therapy")
        b == call(a, "crisis_intervention")
        c == call(b, "cbt_specialist")
    IN  IF none("general_therapy") THEN [raised |-> TRUE, maps |-> NoAgents]
        ELSE IF none("crisis_intervention") THEN [raised |-> TRUE, maps |-> a]
        ELSE IF none("cbt_specialist") THEN [raised |-> TRUE, maps |-> b]
        ELSE [raised |-> FALSE, maps |-> c]

(* run_therapy_bot for connection c, from the new manager to the           *)
(* registrations, with the constructors of failing raising.  The module    *)
(* global is rebound before the tools are set up; an exception of the      *)
(* registrations leaves run_therapy_bot, and the endpoint closes the       *)
(* connection.                                                             *)
run_therapy_bot_registering(c, failing) ==
    LET setup == setup_therapeutic_tools(global_tool_registry, c, failing)
        tasked == [setup.registry EXCEPT
                      !._active_tools =
                          [n \in DOMAIN @ |-> [@[n] EXCEPT !.task = c]]]
        outcome == register_therapeutic_agents(setup.tool_instances)
    IN  /\ ~connection[c].connected
        /\ therapy_agent_manager' = c
        /\ active_tools' = IF "crisis_detection" \in failing
                           THEN active_tools ELSE c
        /\ global_tool_registry' = tasked
        /\ agents' = outcome.maps.agents
        /\ agent_tools' = outcome.maps.agent_tools
        /\ llm_recreate_callback' = TRUE
        /\ connection' =
              IF outcome.raised THEN connection
              ELSE [connection EXCEPT
                       ![c] = [connected |-> TRUE,
                               current_agent |-> "general_therapy",
                               function_handler |-> "global",
                               crisis_detected |-> FALSE]]
        /\ returned' =
              IF outcome.raised
              THEN Raise(Pipeline, "run_therapy_bot", <<"AttributeError">>)
              ELSE Return(Pipeline, "run_therapy_bot", << >>)
        /\ UNCHANGED <<orchestrator, recreate_log, pc, frame, handlers,
                       remote_session, dispatched, aside>>

(* The connection of a session is closed. *)
websocket_disconnect(c) ==
    /\ connection[c].connected
    /\ connection' = [connection EXCEPT ![c] = NotConnected]
    /\ returned' = Return(Pipeline, "websocket_endpoint", << >>)
    /\ UNCHANGED <<orchestrator, registration, recreate_log, pc, frame, handlers,
                   remote_session, therapy_agent_manager, active_tools,
                   dispatched, global_tool_registry, aside>>

(***************************************************************************)
(* utils/tool_websocket_registry.py and the /ws/tools endpoint.            *)
(***************************************************************************)
(* tools_websocket_endpoint up to its first await after the insertion. *)
tools_websocket_endpoint(task) ==
    /\ Len(tool_websockets) < MaxClients
    /\ tool_websockets' = Append(tool_websockets, TRUE)
    /\ broadcast' = [broadcast EXCEPT !.changed = @ \/ broadcast.at # "idle"]
    /\ returned' = Return(task, "tools_websocket_endpoint",
                          <<Len(tool_websockets) + 1>>)

(* The finally clause of tools_websocket_endpoint for client_id. *)
tools_websocket_cleanup(task, client_id) ==
    /\ client_id \in 1..Len(tool_websockets)
    /\ tool_websockets' =
          IF tool_websockets[client_id]
          THEN [tool_websockets EXCEPT ![client_id] = FALSE]
          ELSE tool_websockets
    /\ broadcast' =
          [broadcast EXCEPT
              !.changed = @ \/ (broadcast.at # "idle" /\ tool_websockets[client_id])]
    /\ returned' = Return(task, "tools_websocket_cleanup", <<client_id>>)

(* The first entry after position pos that holds a key, 0 if none does. *)
next_entry(d, pos) ==
    IF \E i \in (pos + 1)..Len(d) : d[i]
    THEN CHOOSE i \in (pos + 1)..Len(d) : d[i] /\ \A j \in (pos + 1)..(i - 1) : ~d[j]
    ELSE 0

(* No removal of the clients whose send failed. *)
keep_failed_clients(d, failed_clients) == d

(* The second loop of the broadcast: each failed client that is still a    *)
(* key is deleted.                                                         *)
remove_failed_clients(d, failed_clients) ==
    [i \in 1..Len(d) |->
        d[i] /\ ~\E j \in 1..Len(failed_clients) : failed_clients[j] = i]

(* The for statement asks the iterator for the next item, with b the       *)
(* locals so far: a dict whose size differs from di_used, or an entry      *)
(* found when every item was yielded, is a RuntimeError, which leaves the  *)
(* broadcast; an entry is the next send; no entry ends the loop, and the   *)
(* broadcast removes the failed clients and returns sent_count.            *)
broadcast_iterate(b) ==
    LET i == next_entry(tool_websockets, b.di_pos)
    IN  IF b.di_used # Cardinality(keys(tool_websockets))
           \/ (i # 0 /\ b.len = 0)
        THEN /\ broadcast' = [b EXCEPT !.at = "idle"]
             /\ tool_websockets' = tool_websockets
             /\ returned' = Raise(Pipeline, "broadcast_to_all_therapeutic_clients",
                                  <<"RuntimeError">>)
        ELSE IF i # 0
        THEN /\ broadcast' = [b EXCEPT !.at = "send_json", !.di_pos = i,
                                       !.len = @ - 1]
             /\ tool_websockets' = tool_websockets
             /\ returned' = returned
        ELSE /\ broadcast' = [b EXCEPT !.at = "idle"]
             /\ tool_websockets' =
                   remove_failed_clients(tool_websockets, b.failed_clients)
             /\ returned' = Return(Pipeline, "broadcast_to_all_therapeutic_clients",
                                   <<b.sent_count>>)

(* broadcast_to_all_therapeutic_clients up to its first await. *)
broadcast_to_all_therapeutic_clients ==
    /\ broadcast.at = "idle"
    /\ broadcast_iterate(
          [NoBroadcast EXCEPT
              !.di_used = Cardinality(keys(tool_websockets)),
              !.len = Cardinality(keys(tool_websockets)),
              !.registered = keys(tool_websockets)])

(* The broadcast resumes from ws.send_json, which returned (ok) or raised. *)
send_json(ok) ==
    /\ broadcast.at = "send_json"
    /\ broadcast_iterate(
          [broadcast EXCEPT
              !.sent_count = IF ok THEN @ + 1 ELSE @,
              !.failed_clients = IF ok THEN @ ELSE Append(@, broadcast.di_pos),
              !.sends = Append(@, [client_id |-> broadcast.di_pos, ok |-> ok])])

(***************************************************************************)
(* CBTTechniquesTool: mood monitoring.  A mood_rating argument is an       *)
(* integer or a string, or it is left out; the schema's minimum and        *)
(* maximum are sent to the LLM service and are not read by execute.        *)
(***************************************************************************)
NoRating == [given |-> FALSE, type |-> "int", value |-> 0]

IntRating(n) == [given |-> TRUE, type |-> "int", value |-> n]

StrRating == [given |-> TRUE, type |-> "str", value |-> 0]

(* kwargs.get("mood_rating", 5) *)
get_mood_rating(argument) == IF argument.given THEN argument ELSE IntRating(5)

(* Buckets that begin at the thresholds themselves. *)
mood_description_below(mood_rating) ==
    IF mood_rating < 3 THEN "very low"
    ELSE IF mood_rating < 5 THEN "low to moderate"
    ELSE IF mood_rating < 7 THEN "moderate"
    ELSE "good"

(* The mood interpretation of _apply_mood_monitoring. *)
mood_description(mood_rating) ==
    IF mood_rating <= 3 THEN "very low"
    ELSE IF mood_rating <= 5 THEN "low to moderate"
    ELSE IF mood_rating <= 7 THEN "moderate"
    ELSE "good"

(* _analyze_mood_trend compares the first and the last of the five latest  *)
(* ratings; an integer and a string do not compare.                        *)
_analyze_mood_trend_raises(mood_logs) ==
    /\ Len(mood_logs) >= 2
    /\ LET first == IF Len(mood_logs) > 5 THEN Len(mood_logs) - 4 ELSE 1
       IN  mood_logs[first].type # mood_logs[Len(mood_logs)].type

(* What becomes of the sends of a broadcast: there is no client, or every  *)
(* send_json returns, or every send_json raises.                           *)
Sends == {"no_clients", "delivered", "failed"}

(* A send_client_command that lets the failure of its sends out. *)
send_client_command_raising(sends) ==
    [raised |-> sends = "failed", exception |-> <<"ConnectionError">>]

(* send_client_command: the broadcast counts the sends that returned and   *)
(* raises for none that failed, and whatever is raised inside the try of   *)
(* send_client_command is logged there.  No exception leaves it, and it    *)
(* returns nothing.                                                        *)
send_client_command(sends) ==
    [raised |-> FALSE, exception |-> << >>]

(* _apply_mood_monitoring: the entry is appended before the rating is      *)
(* compared with a threshold, which is a TypeError for a string; the       *)
(* mood_log_entry command is sent once the response is built.              *)
_apply_mood_monitoring(tool, mood_rating, sends) ==
    LET logged == [tool EXCEPT !.mood_logs = Append(@, mood_rating)]
    IN  IF mood_rating.type # "int"
        THEN Raised(logged,
                    <<"'<=' not supported between instances of 'str' and 'int'">>)
        ELSE IF _analyze_mood_trend_raises(logged.mood_logs)
        THEN Raised(logged,
                    <<"'>' not supported between instances of 'int' and 'str'">>)
        ELSE IF send_client_command(sends).raised
        THEN Raised(logged, send_client_command(sends).exception)
        ELSE Answered(logged,
                      <<"[ar: supportive prefix]", "Your current mood rating: ",
                        ToString(mood_rating.value), "/10 (",
                        mood_description(mood_rating.value), " / ",
                        "[ar: ", mood_description(mood_rating.value), "])",
                        "[encouragement for ",
                        mood_description(mood_rating.value), "]",
                        "Mood tracking helps us:">>)

(* CBTTechniquesTool.execute for the techniques that take no text: the     *)
(* validation, the log entry with its clinical_log command, the            *)
(* technique's entry, and the technique with its own command.              *)
cbt_execute(tool, technique, kwargs, sends) ==
    IF ~validate_action(technique, valid_actions("cbt_techniques"))
    THEN Answered(tool, invalid_action_message("cbt_techniques"))
    ELSE LET logged ==
                 [tool EXCEPT
                     !.session_clinical_log =
                         Append(@, execute_logged("cbt_techniques", technique))]
             begun == [logged EXCEPT !.active_techniques = Append(@, technique)]
         IN  IF send_client_command(sends).raised
             THEN Raised(logged, send_client_command(sends).exception)
             ELSE IF technique = "mood_monitoring"
             THEN _apply_mood_monitoring(begun, get_mood_rating(kwargs.mood_rating),
                                         sends)
             ELSE Answered(begun, handler_response("cbt_techniques", technique))

(* The dict after a broadcast nothing interleaved with, whose sends all    *)
(* returned (ok) or all raised: the failed clients are deleted.            *)
broadcast_uninterrupted(d, ok) ==
    IF ok THEN d
    ELSE remove_failed_clients(d, SelectSeq([i \in 1..Len(d) |-> i],
                                            LAMBDA i : d[i]))

(* An apply_cbt_technique call served by the CBT handler, with the         *)
(* broadcasts of its commands: ok says whether the sends to the clients    *)
(* registered return.  A technique that is refused sends nothing.          *)
cbt_execute_call(t, technique, kwargs, ok) ==
    LET sends == IF keys(tool_websockets) = {} THEN "no_clients"
                 ELSE IF ok THEN "delivered" ELSE "failed"
        outcome == cbt_execute(cbt_tool, technique, kwargs, sends)
    IN  /\ cbt_tool' = outcome.tool
        /\ tool_websockets' =
              IF validate_action(technique, valid_actions("cbt_techniques"))
              THEN broadcast_uninterrupted(tool_websockets, ok)
              ELSE tool_websockets
        /\ returned' = IF outcome.raised
                       THEN Raise(t, "execute", outcome.response)
                       ELSE Return(t, "execute", outcome.response)
        /\ UNCHANGED broadcast

(***************************************************************************)
(* The inputs.                                                             *)
(***************************************************************************)
Targets == AgentNames \cup {"unknown_agent"}

Reasons == {"Client request"}

ContextArguments ==
    {NoneContext, DictContext([preferred_language |-> "arabic"]), JsonStringContext}

CulturalUpdates ==
    {DictContext([religious_considerations |-> "yes"]), JsonStringContext}

(* A reset of the crisis flag, and an update that does not write it. *)
CrisisReset == {[crisis_active |-> FALSE]}

ClinicalUpdates == CrisisReset \cup {[session_phase |-> "closing"]}

CrisisTypes == {"suicide_risk"}

CrisisData == {"crisis data"}

CalledFunctions == FunctionNames \cup {"unknown_function"}

ArgumentSamples ==
    {NoneArguments,
     DictArguments(EmptyDict),
     DictArguments([action |-> "no_such_action"]),
     DictArguments([technique |-> "mood_monitoring", action |-> "assess_risk"]),
     DictArguments([action |-> "assess_risk", user_input |-> PyNone])}

(* The calls of the specifications that are not about dispatch. *)
PlainCalls == {"apply_cbt_technique"}

FirstClient == {"tools_ws_1"}

(* The commands of the /ws/tools clients. *)
ClientNext(clients, context_arguments) ==
    \/ \E t \in clients, target_agent \in Targets, reason \in Reasons,
          arg \in context_arguments :
            switch_agent(t, target_agent, reason, arg)
    \/ \E t \in clients, arg \in CulturalUpdates : update_cultural_context(t, arg)
    \/ \E t \in Tasks, ok \in BOOLEAN : switch_agent_resume(t, ok)

(* The calls of the pipeline. *)
PipelineNext(called_functions, argument_samples, clinical_updates) ==
    \/ \E crisis_type \in CrisisTypes, crisis_data \in CrisisData :
            handle_crisis_escalation(Pipeline, crisis_type, crisis_data)
    \/ \E u \in clinical_updates : update_clinical_state(Pipeline, Dict(u))
    \/ \E function_name \in called_functions, arguments \in argument_samples :
            handle_function_call(Pipeline, function_name, arguments)
    \/ \E raises \in BOOLEAN : handle_function_call_resume(Pipeline, raises)

(* The session as run_therapy_bot or the test harness sets it up, with one *)
(* /ws/tools client, every kind of switch and the plainest function calls. *)
Init == InitOver(SessionSetups)

Next ==
    \/ ClientNext(FirstClient, ContextArguments)
    \/ PipelineNext(PlainCalls, {DictArguments(EmptyDict)}, CrisisReset)

Spec == Init /\ [][Next]_vars

(* Every setup and every kind of function call, with the plainest switches. *)
InitDispatch == InitOver(Setups)

NextDispatch ==
    \/ ClientNext(FirstClient, {NoneContext})
    \/ PipelineNext(CalledFunctions, ArgumentSamples, CrisisReset)

SpecDispatch == InitDispatch /\ [][NextDispatch]_vars

(* Two /ws/tools clients whose commands interleave. *)
InitClients == InitOver(SessionSetups)

NextClients == ClientNext(Clients, ContextArguments)

SpecClients == InitClients /\ [][NextClients]_vars

(* Every kind of clinical update, with the plainest switches and calls. *)
InitCrisis == InitOver(SessionSetups)

NextCrisis ==
    \/ ClientNext(FirstClient, {NoneContext})
    \/ PipelineNext(PlainCalls, {DictArguments(EmptyDict)}, ClinicalUpdates)

SpecCrisis == InitCrisis /\ [][NextCrisis]_vars

(* The arguments of detect_crisis: no risk, a crisis keyword, a score of 6 *)
(* without a keyword, a score of 4, a score of 2, and an explicit          *)
(* escalate_emergency.                                                     *)
CrisisArguments ==
    {DictArguments(EmptyDict),
     DictArguments([user_input |-> EndMyLife]),
     DictArguments([risk_factors |-> <<"previous_attempts", "specific_plan">>]),
     DictArguments([risk_factors |-> <<"previous_attempts", "hopelessness">>]),
     DictArguments([user_input |-> TiredToday,
                    risk_factors |-> <<"hopelessness", "anxiety">>]),
     DictArguments([action |-> "escalate_emergency"])}

(* The running session: the remote session calls detect_crisis, a          *)
(* /ws/tools client switches personas.  Nothing in the running session     *)
(* calls handle_crisis_escalation, so it is no action here.                *)
InitAssess == InitOver(SessionSetups)

NextAssess ==
    \/ ClientNext(FirstClient, {NoneContext})
    \/ \E arguments \in CrisisArguments :
            handle_function_call(Pipeline, "detect_crisis", arguments)
    \/ \E raises \in BOOLEAN : handle_function_call_resume(Pipeline, raises)

SpecAssess == InitAssess /\ [][NextAssess]_vars

(* Two /ws connections in one process, their remote sessions' function     *)
(* calls and the switch commands of the /ws/tools clients.                 *)
InitConnections == InitOver({[maps |-> MainSetup, callback |-> TRUE]})

NextConnections ==
    /\ \/ \E c \in Connections : run_therapy_bot(c)
       \/ \E c \in Connections, function_name \in FunctionNames :
              function_call(c, function_name)
       \/ \E target_agent \in AgentNames, replaced \in BOOLEAN :
              command_switch_agent(target_agent, replaced)
    /\ UNCHANGED <<orchestrator, registration, recreate_log, pc, frame,
                   returned, handlers, remote_session>>

SpecConnections == InitConnections /\ [][NextConnections]_vars

(* The arguments of manage_session that drive the life cycle of a session. *)
LifecycleCalls ==
    {DictArguments([action |-> "start_session"]),
     DictArguments([action |-> "start_session",
                    consent_details |-> [recording_consent |-> TRUE],
                    cultural_preferences |-> [preferred_language |-> "arabic"]]),
     DictArguments([action |-> "end_session"]),
     DictArguments([action |-> "end_session", session_notes |-> "Closing remarks"]),
     DictArguments([action |-> "update_notes", session_notes |-> "Slept badly"]),
     DictArguments([action |-> "document_progress", session_notes |-> "Feeling better"]),
     DictArguments([action |-> "handle_session_interruption"]),
     DictArguments([action |-> "export_session_summary"])}

(* The arguments of manage_session that write the session record's fields. *)
RecordCalls ==
    {DictArguments([action |-> "start_session",
                    cultural_preferences |-> [preferred_language |-> "arabic"]]),
     DictArguments([action |-> "start_session",
                    cultural_preferences |-> [religious_considerations |-> TRUE]]),
     DictArguments([action |-> "handle_session_interruption"]),
     DictArguments([action |-> "track_therapeutic_goals"]),
     DictArguments([action |-> "track_therapeutic_goals", therapeutic_goals |-> "sleep"]),
     DictArguments([action |-> "track_therapeutic_goals", therapeutic_goals |-> "mood"]),
     DictArguments([action |-> "set_emergency_contacts", emergency_contacts |-> "brother"]),
     DictArguments([action |-> "set_emergency_contacts", emergency_contacts |-> "friend"]),
     DictArguments([action |-> "set_emergency_contacts", emergency_contacts |-> "no_phone"]),
     DictArguments([action |-> "manage_consent",
                    consent_details |-> [recording_consent |-> TRUE]]),
     DictArguments([action |-> "manage_consent",
                    consent_details |-> [recording_consent |-> FALSE]]),
     DictArguments([action |-> "manage_consent",
                    consent_details |-> [data_storage_consent |-> TRUE]]),
     DictArguments([action |-> "manage_privacy_settings", privacy_level |-> "maximum"])}

(* The remote session calls manage_session, one call after the other. *)
SessionNext(calls) ==
    \/ \E arguments \in calls :
            /\ Len(session_tool.session_clinical_log) < MaxLog
            /\ handle_function_call(Pipeline, "manage_session", arguments)
    \/ \E raises \in BOOLEAN : handle_function_call_resume(Pipeline, raises)

(* The life cycle of the sessions of the session handler. *)
InitSession == InitOver({[maps |-> MainSetup, callback |-> TRUE]})

NextSession == SessionNext(LifecycleCalls)

SpecSession == InitSession /\ [][NextSession]_vars

(* The fields of the session record. *)
InitRecord == InitOver({[maps |-> MainSetup, callback |-> TRUE]})

NextRecord == SessionNext(RecordCalls)

SpecRecord == InitRecord /\ [][NextRecord]_vars

(* The session of run_therapy_bot with its pipeline: two /ws/tools clients *)
(* switch personas, the recreate callback replaces the LLM service, and    *)
(* the remote session calls the functions it was given.                    *)
InitRemote == InitOver({[maps |-> MainSetup, callback |-> TRUE]})

NextRemote ==
    \/ ClientNext(Clients, {NoneContext})
    \/ \E t \in Tasks : recreate_replaces(t)
    \/ \E function_name \in FunctionNames :
            handle_function_call(Pipeline, function_name, DictArguments(EmptyDict))
    \/ \E raises \in BOOLEAN : handle_function_call_resume(Pipeline, raises)

SpecRemote == InitRemote /\ [][NextRemote]_vars

(* register_agent calls after the setup: the CBT persona registered again  *)
(* with the crisis prompt and handler, and an id not registered before.    *)
Registrations ==
    { [agent_name |-> "cbt_specialist",
       instructions |-> Instruction("crisis_intervention"),
       tool_instances |-> {"crisis_detection"}],
      [agent_name |-> "unknown_agent",
       instructions |-> Instruction("general_therapy"),
       tool_instances |-> {"session_management"}] }

InitRegister == InitOver(SessionSetups)

NextRegister ==
    \/ ClientNext(FirstClient, {NoneContext})
    \/ \E function_name \in FunctionNames :
            handle_function_call(Pipeline, function_name, DictArguments(EmptyDict))
    \/ \E raises \in BOOLEAN : handle_function_call_resume(Pipeline, raises)
    \/ \E r \in Registrations :
            register_agent_call(Pipeline, r.agent_name, r.instructions,
                                Definitions(r.tool_instances),
                                Instances(r.tool_instances))

SpecRegister == InitRegister /\ [][NextRegister]_vars

(* The process with its /ws connections and an operator who resets the     *)
(* crisis flags of the registry.                                           *)
InitRegistry == InitOver({[maps |-> MainSetup, callback |-> TRUE]})

NextRegistry ==
    \/ NextConnections
    \/ /\ reset_all_crisis_flags
       /\ UNCHANGED <<orchestrator, registration, recreate_log, pc, frame,
                      returned, handlers, remote_session>>

SpecRegistry == InitRegistry /\ [][NextRegistry]_vars

(* The texts get_recommended_agent is asked about: none, the empty one, a  *)
(* crisis keyword, "I'm so anxious", an anxiety keyword in capitals inside *)
(* a longer word, an anxiety keyword with a crisis keyword, a cognitive    *)
(* keyword, and no keyword.                                                *)
Utterances ==
    {NoneText, Text(<< >>), Text(KillMyself), Text(ImSoAnxious), Text(Panicking),
     Text(WorriedHurt), Text(CantStop), Text(NiceWeather)}

(* A caller asks for a recommendation with the manager's clinical state,   *)
(* while escalations set the crisis flag, updates clear it and a client    *)
(* switches personas.                                                      *)
InitRecommend == InitOver(SessionSetups)

NextRecommend ==
    \/ ClientNext(FirstClient, {NoneContext})
    \/ \E crisis_type \in CrisisTypes, crisis_data \in CrisisData :
            handle_crisis_escalation(Pipeline, crisis_type, crisis_data)
    \/ \E u \in CrisisReset : update_clinical_state(Pipeline, Dict(u))
    \/ \E user_input \in Utterances :
            get_recommended_agent_call(Pipeline, user_input, clinical_state)

SpecRecommend == InitRecommend /\ [][NextRecommend]_vars

(* Arguments with the discriminator under each of its keys: none, action   *)
(* alone, technique with action, analysis_type with action, and action     *)
(* naming a technique and an analysis type.                                *)
AliasSamples ==
    {DictArguments(EmptyDict),
     DictArguments([action |-> "escalate_emergency", urgency_level |-> "high"]),
     DictArguments([technique |-> "mood_monitoring", action |-> "assess_risk",
                    mood_rating |-> "7"]),
     DictArguments([analysis_type |-> "track_patterns", action |-> "end_session"]),
     DictArguments([action |-> "grounding_techniques"]),
     DictArguments([action |-> "track_patterns", session_context |-> "evening"])}

(* The remote session calls every function with every sample while a      *)
(* client switches personas.                                               *)
InitAlias == InitOver(Setups)

NextAlias ==
    \/ ClientNext(FirstClient, {NoneContext})
    \/ \E function_name \in FunctionNames, arguments \in AliasSamples :
            /\ Len(session_tool.session_clinical_log) < MaxLog
            /\ handle_function_call(Pipeline, function_name, arguments)
    \/ \E raises \in BOOLEAN : handle_function_call_resume(Pipeline, raises)

SpecAlias == InitAlias /\ [][NextAlias]_vars

(* The registry on its own: classes are registered, instances are created  *)
(* for the processors of two connections, with constructors that may       *)
(* raise, and tasks are set.                                               *)
ToolNames == {"crisis_detection", "session_management", "unknown_tool"}

RegisteredNames == {"crisis_detection", "session_management"}

InitCreate == InitOver({[maps |-> MainSetup, callback |-> TRUE]})

NextCreate ==
    /\ \/ \E tool_name \in RegisteredNames, is_base_tool \in BOOLEAN :
              register_tool(tool_name, tool_name, is_base_tool)
       \/ \E tool_name \in ToolNames, rtvi_processor \in Connections,
             raises \in BOOLEAN :
              create_tool_call(tool_name, rtvi_processor, NoTask, raises)
       \/ \E task \in Connections : set_task_for_all_tools(task)
    /\ UNCHANGED <<orchestrator, registration, recreate_log, pc, frame, handlers,
                   remote_session, therapy_agent_manager, active_tools,
                   connection, dispatched, aside>>

SpecCreate == InitCreate /\ [][NextCreate]_vars

(* Sessions are set up and closed, with constructors that may raise. *)
Failing == SUBSET ToolKeys

InitSetup == InitOver({[maps |-> NoAgents, callback |-> FALSE]})

NextSetup ==
    \/ \E c \in Connections, failing \in Failing :
           run_therapy_bot_registering(c, failing)
    \/ \E c \in Connections : websocket_disconnect(c)

SpecSetup == InitSetup /\ [][NextSetup]_vars

(* The CBT handler is called with mood ratings inside and outside the     *)
(* range of the schema, with a string, and with none.                      *)
MaxMoods == 2

MoodRatings == {NoRating, StrRating} \cup {IntRating(n) : n \in 0..11}

MoodTechniques == {"mood_monitoring", "gratitude_practice", "mood_tracking"}

(* Only mood_monitoring uses the rating; the other calls come without. *)
RatingsFor(technique) ==
    IF technique = "mood_monitoring" THEN MoodRatings ELSE {NoRating}

InitMood == InitOver({[maps |-> MainSetup, callback |-> TRUE]})

NextMood ==
    /\ \/ /\ Len(cbt_tool.active_techniques) < MaxMoods
          /\ \E technique \in MoodTechniques, ok \in BOOLEAN :
             \E mood_rating \in RatingsFor(technique) :
                cbt_execute_call(Pipeline, technique,
                                 [mood_rating |-> mood_rating], ok)
       \/ /\ \E task \in Clients : tools_websocket_endpoint(task)
          /\ UNCHANGED cbt_tool
    /\ UNCHANGED <<orchestrator, registration, recreate_log, pc, frame, handlers,
                   remote_session, therapy_agent_manager, active_tools,
                   connection, dispatched, global_tool_registry>>

SpecMood == InitMood /\ [][NextMood]_vars

(* Tool clients connect and disconnect while the handlers broadcast. *)
InitBroadcast == InitOver({[maps |-> MainSetup, callback |-> TRUE]})

NextBroadcast ==
    /\ \/ \E task \in Clients : tools_websocket_endpoint(task)
       \/ \E task \in Clients, client_id \in 1..MaxClients :
              tools_websocket_cleanup(task, client_id)
       \/ broadcast_to_all_therapeutic_clients
       \/ \E ok \in BOOLEAN : send_json(ok)
    /\ UNCHANGED <<orchestrator, registration, recreate_log, pc, frame, handlers,
                   remote_session, therapy_agent_manager, active_tools,
                   connection, dispatched, global_tool_registry, cbt_tool>>

SpecBroadcast == InitBroadcast /\ [][NextBroadcast]_vars

(***************************************************************************)
(* The properties.                                                         *)
(***************************************************************************)

(* C1: a dispatch calls the execute of the tool its function name is       *)
(* routed to exactly when that tool is a key of the handler map of the     *)
(* persona active at that moment (and the arguments are a map); the        *)
(* instance called is the one that map binds; when the tool is not a key   *)
(* the dispatch answers with the "not available for current agent" string  *)
(* and no execute is called.                                               *)
C1_DispatchFollowsActivePersona ==
    [][\A function_name \in FunctionNames, arguments \in ArgumentSamples :
          handle_function_call(Pipeline, function_name, arguments) =>
            LET T == routed_tool(function_name)
                map == agent_tools[current_agent]
                ran == IF pc'[Pipeline] = "execute" THEN frame'[Pipeline].tool
                       ELSE returned'.handler
            IN  /\ (ran # "") <=> (T \in DOMAIN map /\ ~arguments.none)
                /\ ran # "" => ran = map[T]
                /\ T \notin DOMAIN map =>
                      /\ returned'.value \in
                            { <<"Crisis detection tool not available for current agent">>,
                              <<"CBT techniques tool not available for current agent">>,
                              <<"Emotional analysis tool not available for current agent">>,
                              <<"Session management tool not available for current agent">> }
                      /\ ~returned'.raised
                      /\ pc' = pc
                /\ UNCHANGED orchestrator]_vars

(* The CBT tool is bound to the CBT persona and not to general; after the  *)
(* switch from general to CBT the dispatch was served by the CBT handler.  *)
C1_CbtToolServedAfterSwitch ==
    /\ "cbt_techniques" \notin DOMAIN agent_tools["general_therapy"]
    /\ current_agent = "cbt_specialist"
    /\ Len(agent_history) = 1
    /\ agent_history[1].from_agent = "general_therapy"
    /\ returned.op = "handle_function_call"
    /\ returned.handler = "cbt_techniques"
    /\ ~returned.raised
    /\ returned.value = <<"response of ", "cbt_techniques", " to ", "thought_challenging">>

(* C2: a switch_agent call appends exactly one record when its target is   *)
(* registered and differs from the persona active at the call, and none    *)
(* when the target is the active persona (or is not registered); the rest  *)
(* of the call, after the callback, appends nothing.                       *)
C2_HistoryGrowsByOnePerSwitch ==
    [][/\ \A t \in Tasks, target_agent \in Targets, reason \in Reasons,
             arg \in ContextArguments :
             switch_agent(t, target_agent, reason, arg) =>
                Len(agent_history') =
                    Len(agent_history)
                    + (IF target_agent \in DOMAIN agents /\ target_agent # current_agent
                       THEN 1 ELSE 0)
       /\ \A t \in Tasks, ok \in BOOLEAN :
             switch_agent_resume(t, ok) => agent_history' = agent_history]_vars

(* From general: a switch to crisis, then a switch to crisis again, which  *)
(* answered "Already using" and left the history at one record.            *)
C2_SecondSwitchToCrisisIsNoOp ==
    /\ Len(agent_history) = 1
    /\ agent_history[1].from_agent = "general_therapy"
    /\ agent_history[1].to_agent = "crisis_intervention"
    /\ current_agent = "crisis_intervention"
    /\ returned.op = "switch_agent"
    /\ returned.value = <<"Already using ", "crisis_intervention", " agent.">>

(* C3: switch_agent to a target that is not registered returns (does not   *)
(* raise) a message that names the target and every registered persona,    *)
(* leaves current_agent, agent_history, cultural_context and               *)
(* clinical_state as they were and does not invoke the recreate callback.  *)
C3_UnregisteredTargetChangesNothing ==
    [][\A t \in Tasks, target_agent \in Targets, reason \in Reasons,
          arg \in ContextArguments :
          (target_agent \notin DOMAIN agents
             /\ switch_agent(t, target_agent, reason, arg)) =>
            /\ UNCHANGED <<current_agent, agent_history, cultural_context,
                           clinical_state, recreate_log, pc>>
            /\ returned'.op = "switch_agent"
            /\ ~returned'.raised
            /\ returned'.value[1] = "Therapeutic agent '"
            /\ returned'.value[2] = target_agent
            /\ \A n \in DOMAIN agents :
                  \E i \in 1..Len(returned'.value) : returned'.value[i] = n]_vars

(* After a committed switch, a switch to an unknown persona was answered   *)
(* with the list of the three registered ones.                             *)
C3_UnknownPersonaRejected ==
    /\ returned.op = "switch_agent"
    /\ returned.value =
          <<"Therapeutic agent '", "unknown_agent", "' not available. Available: ",
            "general_therapy", ", ", "crisis_intervention", ", ", "cbt_specialist">>
    /\ agent_history # << >>
    /\ current_agent # "general_therapy"

(* C4: in every state the active persona is one registered persona and the *)
(* history is empty or its last record's to_agent is the active persona:   *)
(* no state shows a record appended without the persona updated.           *)
C4_NoHalfAppliedSwitch ==
    /\ current_agent \in DOMAIN agents
    /\ \/ agent_history = << >>
       \/ agent_history[Len(agent_history)].to_agent = current_agent

(* C5, as stated: when the recreate callback raised, switch_agent returns  *)
(* the announcement without raising, the new record is in the history and  *)
(* the active persona is the target.                                       *)
C5_FailedRecreateLeavesTargetActive ==
    [][\A t \in Tasks :
          switch_agent_resume(t, FALSE) =>
            /\ ~returned'.raised
            /\ \E i \in 1..Len(returned'.value) :
                  returned'.value[i] = "I'm connecting you with "
            /\ \E i \in 1..Len(agent_history') :
                  /\ agent_history'[i].from_agent = frame[t].previous_agent
                  /\ agent_history'[i].to_agent = frame[t].target_agent
            /\ current_agent' = frame[t].target_agent]_vars

(* C5, amended: when the recreate callback raised, switch_agent returns    *)
(* the announcement without raising and writes nothing of the orchestrator *)
(* on the way (no rollback); the new record is in the history; the active  *)
(* persona is the target, unless a later switch that committed while the   *)
(* callback was suspended moved it on from the target.                     *)
C5_FailedRecreateNoRollback ==
    [][\A t \in Tasks :
          switch_agent_resume(t, FALSE) =>
            /\ ~returned'.raised
            /\ \E i \in 1..Len(returned'.value) :
                  returned'.value[i] = "I'm connecting you with "
            /\ UNCHANGED <<current_agent, agent_history, cultural_context,
                           clinical_state>>
            /\ \E i \in 1..Len(agent_history') :
                  /\ agent_history'[i].from_agent = frame[t].previous_agent
                  /\ agent_history'[i].to_agent = frame[t].target_agent
                  /\ \/ current_agent' = frame[t].target_agent
                     \/ \E j \in (i + 1)..Len(agent_history') :
                           /\ agent_history'[j].from_agent = frame[t].target_agent
                           /\ agent_history'[j].cultural_context_ref # "json_string"]_vars

(* A switch from general to CBT whose callback raised has returned, with   *)
(* CBT active and its record last in the history.                          *)
C5_FailedRecreateCommitted ==
    /\ returned.op = "switch_agent"
    /\ returned.callback = "failed"
    /\ ~returned.raised
    /\ current_agent = "cbt_specialist"
    /\ agent_history # << >>
    /\ agent_history[Len(agent_history)].to_agent = "cbt_specialist"
    /\ \A t \in Tasks : pc[t] = "idle"

(* C6, as stated: during the whole time a switch is suspended in the       *)
(* recreate callback its record is in the history, its cultural context is *)
(* merged and the active persona is its target.                            *)
C6_CommitHoldsWhileSuspended ==
    \A t \in Tasks :
        pc[t] = "recreate" =>
            /\ \E i \in 1..Len(agent_history) :
                  /\ agent_history[i].from_agent = frame[t].previous_agent
                  /\ agent_history[i].to_agent = frame[t].target_agent
            /\ \A k \in DOMAIN frame[t].cultural_context.val :
                  /\ k \in DOMAIN cultural_context
                  /\ cultural_context[k] = frame[t].cultural_context.val[k]
            /\ current_agent = frame[t].target_agent

(* C6, amended: the step that invokes the recreate callback is the step    *)
(* that appends the record, merges the cultural context and makes the      *)
(* target the active persona; while the callback is suspended the record   *)
(* stays in the history and the active persona is the target until a later *)
(* switch commits; the return after the callback writes nothing of the     *)
(* orchestrator.                                                           *)
C6_CommitPrecedesRecreate ==
    [][/\ \A t \in Tasks :
             (pc[t] # "recreate" /\ pc'[t] = "recreate") =>
                LET f == frame'[t]
                    n == Len(agent_history')
                IN  /\ n = Len(agent_history) + 1
                    /\ SubSeq(agent_history', 1, n - 1) = agent_history
                    /\ agent_history'[n].from_agent = current_agent
                    /\ agent_history'[n].to_agent = f.target_agent
                    /\ f.previous_agent = current_agent
                    /\ current_agent' = f.target_agent
                    /\ cultural_context' =
                          IF f.cultural_context.ref = "dict"
                          THEN Update(cultural_context, f.cultural_context.val)
                          ELSE cultural_context
                    /\ Len(recreate_log') = Len(recreate_log) + 1
       /\ \A t \in Tasks :
             pc[t] = "recreate" =>
                /\ SubSeq(agent_history', 1, Len(agent_history)) = agent_history
                /\ \E i \in 1..Len(agent_history') :
                      /\ agent_history'[i].from_agent = frame[t].previous_agent
                      /\ agent_history'[i].to_agent = frame[t].target_agent
                      /\ \/ current_agent' = frame[t].target_agent
                         \/ \E j \in (i + 1)..Len(agent_history') :
                               /\ agent_history'[j].from_agent = frame[t].target_agent
                               /\ agent_history'[j].cultural_context_ref # "json_string"
       /\ \A t \in Tasks, ok \in BOOLEAN :
             switch_agent_resume(t, ok) =>
                UNCHANGED <<current_agent, agent_history, cultural_context,
                            clinical_state>>]_vars

(* A switch given an Arabic-language context is suspended in the callback  *)
(* with its record last, the language merged and its target active.        *)
C6_SuspendedAfterCommit ==
    \E t \in Tasks :
        /\ pc[t] = "recreate"
        /\ frame[t].cultural_context.ref = "dict"
        /\ "preferred_language" \in DOMAIN cultural_context
        /\ cultural_context["preferred_language"] = "arabic"
        /\ current_agent = frame[t].target_agent
        /\ agent_history[Len(agent_history)].to_agent = frame[t].target_agent

(* C7: a step invokes the recreate callback exactly when a callback is     *)
(* bound and the step changes the active persona, once, with the new       *)
(* persona's registered prompt and tool definitions; no other step invokes *)
(* it: not a rejected switch, not a switch to the active persona, no step  *)
(* of a session without a callback, and not the return after a failed      *)
(* invocation.                                                             *)
C7_RecreateOncePerPersonaChange ==
    [][/\ (llm_recreate_callback /\ current_agent' # current_agent) =>
             recreate_log' =
                Append(recreate_log,
                       [instructions |-> Instruction(current_agent'),
                        tools |-> agents[current_agent'].tools])
       /\ ~(llm_recreate_callback /\ current_agent' # current_agent) =>
             recreate_log' = recreate_log
       /\ \A t \in Tasks :
             switch_agent_resume(t, FALSE) =>
                /\ recreate_log' = recreate_log
                /\ pc'[t] = "idle"]_vars

(* Two switches changed the persona in a session with a callback: the      *)
(* callback was invoked twice, first for crisis and then for CBT, and the  *)
(* second invocation failed.                                               *)
C7_TwoSwitchesTwoInvocations ==
    /\ llm_recreate_callback
    /\ Len(agent_history) = 2
    /\ Len(recreate_log) = 2
    /\ recreate_log[1].instructions = "CRISIS_INTERVENTION_INSTRUCTION"
    /\ recreate_log[2].instructions = "CBT_SPECIALIST_INSTRUCTION"
    /\ recreate_log[2].tools = <<"apply_cbt_technique", "analyze_emotion">>
    /\ returned.callback = "failed"
    /\ \A t \in Tasks : pc[t] = "idle"

(* C8: handle_function_call, for every function name, known or not, bound  *)
(* to the active persona or not, for every arguments value, None included, *)
(* and whether or not execute raises, before or after its first await,     *)
(* hands back a string and never an exception.                             *)
C8_DispatchNeverRaises ==
    [][/\ \A function_name \in CalledFunctions, arguments \in ArgumentSamples :
             handle_function_call(Pipeline, function_name, arguments) =>
                \/ /\ pc'[Pipeline] = "execute"
                   /\ returned' = returned
                \/ /\ pc' = pc
                   /\ returned'.op = "handle_function_call"
                   /\ ~returned'.raised
                   /\ returned'.value # << >>
       /\ \A raises \in BOOLEAN :
             handle_function_call_resume(Pipeline, raises) =>
                /\ pc'[Pipeline] = "idle"
                /\ returned'.op = "handle_function_call"
                /\ ~returned'.raised
                /\ returned'.value # << >>]_vars

(* An exception left a handler's execute and came back as the error string. *)
C8_HandlerExceptionReported ==
    /\ returned.op = "handle_function_call"
    /\ returned.handler # ""
    /\ ~returned.raised
    /\ returned.value =
          <<"Error executing therapeutic function: ", "handler exception">>

(* C9: every handle_crisis_escalation leaves crisis_active true and the    *)
(* crisis persona active; with the crisis persona already active it        *)
(* appends no record, does not invoke the callback and returns the         *)
(* "already active and handling" notice; otherwise it appends exactly one  *)
(* record, to the crisis persona; and a call that directly follows another *)
(* escalation, no other switch having come between, is of the first kind.  *)
C9_EscalationIdempotent ==
    [][\A crisis_type \in CrisisTypes, crisis_data \in CrisisData :
          handle_crisis_escalation(Pipeline, crisis_type, crisis_data) =>
            LET n == Len(agent_history)
                notice ==
                    <<"Crisis intervention agent already active and handling the situation.">>
                no_switch ==
                    /\ agent_history' = agent_history
                    /\ recreate_log' = recreate_log
                    /\ pc' = pc
                    /\ returned'.op = "handle_crisis_escalation"
                    /\ returned'.value = notice
                follows_escalation ==
                    /\ returned.op = "handle_crisis_escalation"
                    /\ \A t \in Tasks : pc[t] = "idle"
                    /\ \/ returned.value = notice
                       \/ /\ n > 0
                          /\ agent_history[n].reason = "Crisis escalation: " \o crisis_type
            IN  /\ "crisis_active" \in DOMAIN clinical_state'
                /\ clinical_state'["crisis_active"] = TRUE
                /\ current_agent' = "crisis_intervention"
                /\ IF current_agent = "crisis_intervention"
                   THEN no_switch
                   ELSE /\ Len(agent_history') = n + 1
                        /\ SubSeq(agent_history', 1, n) = agent_history
                        /\ agent_history'[n + 1].from_agent = current_agent
                        /\ agent_history'[n + 1].to_agent = "crisis_intervention"
                /\ follows_escalation => no_switch]_vars

(* Two escalations from general: one record, one invocation of the         *)
(* callback if one is bound, and the notice returned by the second.        *)
C9_SecondEscalationNoticed ==
    /\ returned.op = "handle_crisis_escalation"
    /\ returned.value =
          <<"Crisis intervention agent already active and handling the situation.">>
    /\ Len(agent_history) = 1
    /\ agent_history[1].from_agent = "general_therapy"
    /\ agent_history[1].reason = "Crisis escalation: suicide_risk"
    /\ current_agent = "crisis_intervention"
    /\ Len(recreate_log) = (IF llm_recreate_callback THEN 1 ELSE 0)
    /\ clinical_state["crisis_active"] = TRUE

(* C10: a step from a state where crisis_active is true to a state where   *)
(* it is not is an update_clinical_state whose updates write crisis_active;*)
(* switch_agent to any persona, handle_function_call, further escalations  *)
(* and update_cultural_context keep it true.                               *)
C10_CrisisFlagOnlyClearedExplicitly ==
    [][(/\ "crisis_active" \in DOMAIN clinical_state
        /\ clinical_state["crisis_active"] = TRUE
        /\ ~(/\ "crisis_active" \in DOMAIN clinical_state'
             /\ clinical_state'["crisis_active"] = TRUE)) =>
          \E u \in ClinicalUpdates :
              /\ "crisis_active" \in DOMAIN u
              /\ update_clinical_state(Pipeline, Dict(u))]_vars

(* After an escalation and a switch back to general, and an update of the  *)
(* clinical state that does not write the flag, crisis_active is true.     *)
C10_CrisisStillActiveBackOnGeneral ==
    /\ "crisis_active" \in DOMAIN clinical_state
    /\ clinical_state["crisis_active"] = TRUE
    /\ "session_phase" \in DOMAIN clinical_state
    /\ current_agent = "general_therapy"
    /\ Len(agent_history) = 2
    /\ agent_history[1].to_agent = "crisis_intervention"
    /\ agent_history[2].to_agent = "general_therapy"

(* C11: when a detect_crisis call with action assess_risk that classified  *)
(* the risk as imminent (a crisis keyword in the input, or a risk score of *)
(* 6 or more) returns while a persona other than crisis_intervention is    *)
(* active, the escalation has reached handle_crisis_escalation: the active *)
(* persona is crisis_intervention and crisis_active is true.               *)
C11_ImminentRiskEscalatesPersona ==
    [][(/\ handle_function_call_resume(Pipeline, FALSE)
        /\ frame[Pipeline].tool = "crisis_detection"
        /\ frame[Pipeline].action = "assess_risk"
        /\ crisis_tool'.current_risk_level = "imminent"
        /\ current_agent # "crisis_intervention")
       => /\ current_agent' = "crisis_intervention"
          /\ "crisis_active" \in DOMAIN clinical_state'
          /\ clinical_state'["crisis_active"] = TRUE]_vars

(* C12: a function call of the remote session of a /ws connection is       *)
(* dispatched to the manager and to the handler instances that             *)
(* run_therapy_bot created for that connection, and it leaves the persona  *)
(* and the handler flags of every other connection as they were.           *)
C12_ConnectionsIndependent ==
    [][\A c \in Connections, function_name \in FunctionNames :
          function_call(c, function_name) =>
              /\ dispatched'.manager = c
              /\ dispatched'.instances = c
              /\ \A other \in Connections \ {c} :
                    connection'[other] = connection[other]]_vars

(* C13: when a switch returns after its recreate callback replaced the LLM *)
(* service and returned, the function names the remote session was given   *)
(* are exactly the definitions of the tools the now-active persona binds a *)
(* handler for.                                                            *)
C13_ExposedToolsAreBoundTools ==
    [][\A t \in Tasks :
          (switch_agent_resume(t, TRUE) /\ pc[t] = "replaced") =>
              Range(remote_session'.tools) =
                  {get_tool_definition(k) :
                      k \in DOMAIN Get(agent_tools', current_agent', EmptyDict)}]_vars

(* C14 as stated: in a state where the remote session's persona differs    *)
(* from the active persona, a switch_agent request for the active persona  *)
(* invokes the recreate callback again.                                    *)
C14_RequestForActivePersonaRecreates ==
    [][\A t \in Clients, reason \in Reasons :
          (/\ switch_agent(t, current_agent, reason, NoneContext)
           /\ llm_recreate_callback
           /\ remote_session.instructions # agents[current_agent].instructions)
          => Len(recreate_log') = Len(recreate_log) + 1]_vars

(* C14, amended: a switch_agent request invokes the recreate callback      *)
(* exactly when its target is registered and is not the active persona, so *)
(* a request for the active persona reconciles nothing; and when the       *)
(* callback of a switch to the persona that is active replaces the LLM     *)
(* service, the remote session's persona is the active persona.            *)
C14_OnlyAnotherPersonaRecreates ==
    [][/\ \A t \in Clients, target_agent \in Targets, reason \in Reasons :
             switch_agent(t, target_agent, reason, NoneContext) =>
                 /\ (Len(recreate_log') = Len(recreate_log) + 1) <=>
                       (/\ llm_recreate_callback
                        /\ target_agent \in DOMAIN agents
                        /\ target_agent # current_agent)
                 /\ remote_session' = remote_session
       /\ \A t \in Tasks :
             (recreate_replaces(t) /\ frame[t].target_agent = current_agent) =>
                 remote_session'.instructions = agents[current_agent'].instructions]_vars

(* C14 witness: the remote session's persona differs from the active one   *)
(* after a request for the active persona was answered, no callback having *)
(* been invoked for it.                                                    *)
C14_DivergedAfterAlreadyUsing ==
    /\ returned.op = "switch_agent"
    /\ returned.value = already_using_message(current_agent)
    /\ remote_session.instructions # agents[current_agent].instructions
    /\ Len(recreate_log) = 1
    /\ \A t \in Tasks : pc[t] = "idle"

(* C15: an end_session that finds the session active, after a start_session *)
(* that succeeded, is answered with the summary and not with the error      *)
(* string of an exception, and leaves session_active false.                 *)
C15_EndSessionCompletes ==
    [][(/\ handle_function_call_resume(Pipeline, FALSE)
        /\ frame[Pipeline].tool = "session_management"
        /\ frame[Pipeline].action = "end_session"
        /\ session_tool.session_active)
       => /\ ~returned'.raised
          /\ Head(returned'.value) # Head(error_message(<< >>))
          /\ ~session_tool'.session_active]_vars

(* C16: a start_session while a session is active, and an end_session or a *)
(* handle_session_interruption while none is, are answered with their      *)
(* error string, no exception being raised or caught, and leave            *)
(* session_active, session_start_time, current_session, session_notes,     *)
(* progress_markers and session_history as they were.                      *)
C16_InvalidTransitionChangesNothing ==
    [][(/\ handle_function_call_resume(Pipeline, FALSE)
        /\ frame[Pipeline].tool = "session_management"
        /\ \/ /\ frame[Pipeline].action = "start_session"
              /\ session_tool.session_active
           \/ /\ frame[Pipeline].action \in
                    {"end_session", "handle_session_interruption"}
              /\ ~session_tool.session_active)
       => /\ ~returned'.raised
          /\ returned'.value =
                (CASE frame[Pipeline].action = "start_session" ->
                        <<"A session is already active. Please end the current session before starting a new one.">>
                   [] frame[Pipeline].action = "end_session" ->
                        <<"No active session to end.">>
                   [] frame[Pipeline].action = "handle_session_interruption" ->
                        <<"No active session to handle interruption for.">>)
          /\ session_tool'.session_active = session_tool.session_active
          /\ session_tool'.session_start_time = session_tool.session_start_time
          /\ session_tool'.current_session = session_tool.current_session
          /\ session_tool'.session_notes = session_tool.session_notes
          /\ session_tool'.progress_markers = session_tool.progress_markers
          /\ session_tool'.session_history = session_tool.session_history]_vars

(* C16 witness: a start_session was refused while a session with a note    *)
(* was active.                                                             *)
C16_StartRefusedWhileActive ==
    /\ returned.handler = "session_management"
    /\ returned.value = already_active_message
    /\ session_tool.session_active
    /\ session_tool.session_notes # << >>

C19_RecordFieldsOnlyGainEntries ==
    [][/\ Range(session_tool.therapeutic_goals)
            \subseteq Range(session_tool'.therapeutic_goals)
       /\ Range(session_tool.emergency_contacts)
            \subseteq Range(session_tool'.emergency_contacts)
       /\ DOMAIN session_tool.consent_status
            \subseteq DOMAIN session_tool'.consent_status
       /\ DOMAIN session_tool.cultural_preferences
            \subseteq DOMAIN session_tool'.cultural_preferences]_vars

(* C19, amended: the consent flags and the cultural preferences are        *)
(* merged, so they keep every key they had.  track_therapeutic_goals with  *)
(* a non-empty list replaces the goals by that list, and                   *)
(* set_emergency_contacts with a non-empty list replaces the contacts by   *)
(* the entries of that list that have a name and a phone; no other call    *)
(* writes the goals or the contacts.                                       *)
C19_GoalsAndContactsReplaced ==
    [][/\ DOMAIN session_tool.consent_status
            \subseteq DOMAIN session_tool'.consent_status
       /\ DOMAIN session_tool.cultural_preferences
            \subseteq DOMAIN session_tool'.cultural_preferences
       /\ LET served == /\ handle_function_call_resume(Pipeline, FALSE)
                         /\ frame[Pipeline].tool = "session_management"
               goals ==
                   goals_list(Get(frame[Pipeline].kwargs, "therapeutic_goals", ""))
               contacts ==
                   contacts_list(Get(frame[Pipeline].kwargs, "emergency_contacts", ""))
           IN  /\ session_tool'.therapeutic_goals =
                     IF /\ served
                        /\ frame[Pipeline].action = "track_therapeutic_goals"
                        /\ goals # << >>
                     THEN goals
                     ELSE session_tool.therapeutic_goals
               /\ session_tool'.emergency_contacts =
                     IF /\ served
                        /\ frame[Pipeline].action = "set_emergency_contacts"
                        /\ contacts # << >>
                     THEN SelectSeq(contacts,
                                    LAMBDA c : c.name # "" /\ c.phone # "")
                     ELSE session_tool.emergency_contacts]_vars

(* C19 witness: the goals were set twice and only the second list is       *)
(* stored.                                                                 *)
C19_SecondListReplacedFirst ==
    /\ session_tool.therapeutic_goals = <<"Improve mood stability">>
    /\ Cardinality({i \in DOMAIN session_tool.session_clinical_log :
                      session_tool.session_clinical_log[i]
                          = "therapeutic_goals_updated"}) = 2
    /\ returned.handler = "session_management"
    /\ returned.value =
          <<"Therapeutic goals have been established for our work together.",
            "Improve mood stability">>

(* C20: a SwitchRecord is immutable.  Every record of agent_history stays  *)
(* at its index, and none of its fields (from, to, reason, cultural        *)
(* context, clinical state), as read through agent_history, is changed by  *)
(* any later operation.                                                    *)
C20_SwitchRecordsImmutable ==
    [][\A i \in DOMAIN agent_history :
          /\ i \in DOMAIN agent_history'
          /\ recorded_fields(agent_history'[i], cultural_context')
               = recorded_fields(agent_history[i], cultural_context)]_vars

(* C21: registered personas are write-once.  Once an id is a key of        *)
(* agents, no later operation, a register_agent call with the same id      *)
(* included, changes its prompt, its tool-definition list or its handler   *)
(* map.                                                                    *)
C21_RegisteredPersonaWriteOnce ==
    [][\A n \in DOMAIN agents :
          /\ n \in DOMAIN agents'
          /\ agents'[n].instructions = agents[n].instructions
          /\ agents'[n].tools = agents[n].tools
          /\ agents'[n].tool_instances = agents[n].tool_instances
          /\ agent_tools'[n] = agent_tools[n]]_vars

(* C22: an assess_risk call that leaves current_risk_level at imminent has *)
(* set emergency_escalation_needed before it returns, and one that leaves  *)
(* another level does not write emergency_escalation_needed.               *)
C22_ImminentAssessmentEscalatesInCall ==
    [][(/\ handle_function_call_resume(Pipeline, FALSE)
        /\ frame[Pipeline].tool = "crisis_detection"
        /\ frame[Pipeline].action = "assess_risk")
       => IF crisis_tool'.current_risk_level = "imminent"
          THEN crisis_tool'.emergency_escalation_needed
          ELSE crisis_tool'.emergency_escalation_needed
                 = crisis_tool.emergency_escalation_needed]_vars

(* C22 witness: an assess_risk call with a score of 6 and no keyword has   *)
(* returned; the level is imminent and the escalation flag is set.         *)
C22_ScoreOfSixEscalated ==
    /\ returned.op = "handle_function_call"
    /\ returned.handler = "crisis_detection"
    /\ ~returned.raised
    /\ crisis_tool.current_risk_level = "imminent"
    /\ crisis_tool.emergency_escalation_needed
    /\ ~crisis_tool.crisis_detected

(* C23: an assess_risk call sets current_risk_level to imminent if the     *)
(* text contains a crisis keyword or the score is at least 6, otherwise to *)
(* high if the score is at least 4, otherwise to moderate if it is at      *)
(* least 2, otherwise to low, where the score is 3 for every supplied      *)
(* high-risk factor plus 1 for every supplied moderate-risk factor; a      *)
(* crisis keyword also sets crisis_detected.                               *)
C23_RiskLevelFollowsThresholds ==
    [][(/\ handle_function_call_resume(Pipeline, FALSE)
        /\ frame[Pipeline].tool = "crisis_detection"
        /\ frame[Pipeline].action = "assess_risk")
       => LET text == user_lower(Get(frame[Pipeline].kwargs, "user_input", ""))
              factors == Get(frame[Pipeline].kwargs, "risk_factors", << >>)
              keyword == \E k \in crisis_keywords : Occurs(k, text)
              score ==
                  3 * Cardinality({i \in DOMAIN factors :
                                      factors[i] \in high_risk_factors})
                  + Cardinality({i \in DOMAIN factors :
                                    factors[i] \in moderate_risk_factors})
          IN  /\ crisis_tool'.current_risk_level =
                    IF keyword \/ score >= 6 THEN "imminent"
                    ELSE IF score >= 4 THEN "high"
                    ELSE IF score >= 2 THEN "moderate"
                    ELSE "low"
              /\ keyword => crisis_tool'.crisis_detected]_vars

(* C23 witness: an assessment of two moderate factors has returned after   *)
(* one of a crisis keyword; the level is back at moderate and the keyword  *)
(* flag is still set.                                                      *)
C23_ModerateAfterKeyword ==
    /\ returned.op = "handle_function_call"
    /\ returned.handler = "crisis_detection"
    /\ ~returned.raised
    /\ crisis_tool.current_risk_level = "moderate"
    /\ crisis_tool.crisis_detected

C25_InvalidActionReportedAndInert ==
    [][\A function_name \in FunctionNames :
          (/\ handle_function_call(Pipeline, function_name,
                                   DictArguments([action |-> "no_such_action"]))
           /\ routed_tool(function_name) \in DOMAIN agent_tools[current_agent])
          => /\ returned'.op = "handle_function_call"
             /\ ~returned'.raised
             /\ returned'.handler =
                   agent_tools[current_agent][routed_tool(function_name)]
             /\ Head(returned'.value) \in
                   {"Invalid crisis action. Use: ", "Invalid CBT technique. Use: ",
                    "Invalid analysis type. Use: ", "Invalid session action. Use: "}
             /\ \A name \in Range(valid_actions(returned'.handler)) :
                   \E i \in DOMAIN returned'.value : returned'.value[i] = name
             /\ returned'.logged = << >>
             /\ pc'[Pipeline] = "idle"
             /\ crisis_tool' = crisis_tool
             /\ session_tool' = session_tool]_vars

(* C25 witness: the CBT handler has refused a technique name while the CBT *)
(* persona was active.                                                     *)
C25_CbtTechniqueRefused ==
    /\ current_agent = "cbt_specialist"
    /\ returned.op = "handle_function_call"
    /\ returned.handler = "cbt_techniques"
    /\ Head(returned.value) = "Invalid CBT technique. Use: "
    /\ returned.logged = << >>

(* C26: handler crisis flags are sticky.  Once a detect_crisis call has    *)
(* set crisis_detected on a connection's crisis handler,                   *)
(* check_crisis_status reports a crisis and lists the handler after every  *)
(* step that is not reset_all_crisis_flags; right after                    *)
(* reset_all_crisis_flags it reports none.                                 *)
C26_CrisisReportedUntilReset ==
    [][IF reset_all_crisis_flags
       THEN ~check_crisis_status(active_tools', connection').any_crisis_detected
       ELSE (\E c \in Connections : connection[c].crisis_detected)
            => LET status == check_crisis_status(active_tools', connection')
               IN  /\ status.any_crisis_detected
                   /\ status.tools_with_crisis = <<"crisis_detection">>]_vars

(* C27: get_recommended_agent is a priority function of the text and of    *)
(* crisis_active: no text or the empty text gives general; otherwise a     *)
(* crisis keyword gives crisis; otherwise an anxiety keyword gives crisis  *)
(* when crisis_active is true and CBT when it is not; otherwise a          *)
(* cognitive keyword gives CBT; otherwise general.  The call does not      *)
(* raise and changes nothing of the orchestrator.                          *)
C27_RecommendationByPriority ==
    [][\A user_input \in Utterances :
          get_recommended_agent_call(Pipeline, user_input, clinical_state)
          => LET text == lower(user_input.text)
                 has(keywords) == \E k \in keywords : Occurs(k, text)
                 crisis_active ==
                     /\ "crisis_active" \in DOMAIN clinical_state
                     /\ clinical_state["crisis_active"] = TRUE
             IN  /\ ~returned'.raised
                 /\ returned'.value =
                       <<CASE user_input.none \/ user_input.text = << >> ->
                                 "general_therapy"
                           [] has(agent_crisis_keywords) -> "crisis_intervention"
                           [] has(anxiety_keywords) /\ crisis_active ->
                                 "crisis_intervention"
                           [] has(anxiety_keywords) -> "cbt_specialist"
                           [] has(cognitive_keywords) -> "cbt_specialist"
                           [] OTHER -> "general_therapy">>
                 /\ UNCHANGED <<orchestrator, registration>>]_vars

(* C27 witness: during an active crisis a text with an anxiety keyword     *)
(* inside a longer word, in capitals, was answered with the crisis         *)
(* persona.                                                                *)
C27_PanicDuringCrisis ==
    /\ returned.op = "get_recommended_agent"
    /\ returned.value = <<"crisis_intervention">>
    /\ "crisis_active" \in DOMAIN clinical_state
    /\ clinical_state["crisis_active"] = TRUE
    /\ current_agent = "cbt_specialist"

(* C28: "I'm so anxious" is recognised as an anxiety input:                *)
(* get_recommended_agent answers CBT when crisis_active is false and       *)
(* crisis when it is true.                                                 *)
C28_ImSoAnxiousIsAnxiety ==
    [][get_recommended_agent_call(Pipeline, Text(ImSoAnxious), clinical_state)
       => returned'.value =
             <<IF /\ "crisis_active" \in DOMAIN clinical_state
                  /\ clinical_state["crisis_active"] = TRUE
               THEN "crisis_intervention"
               ELSE "cbt_specialist">>]_vars

(* C29: dispatch takes the discriminator from 'action' for detect_crisis   *)
(* and manage_session, from 'technique' and else 'action' for              *)
(* apply_cbt_technique, from 'analysis_type' and else 'action' for         *)
(* analyze_emotion, and the default of the tool when no such key is        *)
(* present; execute receives it with the arguments minus those keys, every *)
(* other key unchanged.                                                    *)
C29_DiscriminatorExtractedAliasesStripped ==
    [][\A function_name \in FunctionNames, arguments \in AliasSamples :
          (/\ handle_function_call(Pipeline, function_name, arguments)
           /\ routed_tool(function_name) \in DOMAIN agent_tools[current_agent])
          => LET a == arguments.dict
                 key(k, default) == IF k \in DOMAIN a THEN a[k] ELSE default
                 received ==
                     CASE function_name = "detect_crisis" ->
                             key("action", "assess_risk")
                       [] function_name = "manage_session" ->
                             key("action", "update_progress")
                       [] function_name = "apply_cbt_technique" ->
                             key("technique", key("action", "thought_challenging"))
                       [] function_name = "analyze_emotion" ->
                             key("analysis_type", key("action", "detect_emotions"))
                 aliases ==
                     CASE function_name = "apply_cbt_technique" ->
                             {"technique", "action"}
                       [] function_name = "analyze_emotion" ->
                             {"analysis_type", "action"}
                       [] OTHER -> {"action"}
                 instance == agent_tools[current_agent][routed_tool(function_name)]
             IN  IF \E i \in DOMAIN valid_actions(instance) :
                        valid_actions(instance)[i] = received
                 THEN /\ pc'[Pipeline] = "execute"
                      /\ frame'[Pipeline].tool = instance
                      /\ frame'[Pipeline].action = received
                      /\ DOMAIN frame'[Pipeline].kwargs = DOMAIN a \ aliases
                      /\ \A k \in DOMAIN a \ aliases :
                            frame'[Pipeline].kwargs[k] = a[k]
                 ELSE /\ pc'[Pipeline] = "idle"
                      /\ returned'.handler = instance
                      /\ returned'.logged = << >>]_vars

(* C29 witness: the crisis handler is suspended in assess_risk, called     *)
(* with 'technique' among its arguments: the key was forwarded.            *)
C29_TechniqueForwardedToCrisisHandler ==
    /\ pc[Pipeline] = "execute"
    /\ frame[Pipeline].tool = "crisis_detection"
    /\ frame[Pipeline].action = "assess_risk"
    /\ DOMAIN frame[Pipeline].kwargs = {"technique", "mood_rating"}

(* C30: create_tool fails soft.  For a name that is not registered, or a   *)
(* class whose constructor raises, it returns None without raising and     *)
(* leaves the instance map as it was, so get_tool still returns the        *)
(* instance created earlier under that name; a successful create_tool      *)
(* returns the new instance, and get_tool returns that instance.           *)
C30_CreateFailsSoft ==
    [][\A tool_name \in ToolNames, rtvi_processor \in Connections,
          raises \in BOOLEAN :
          create_tool_call(tool_name, rtvi_processor, NoTask, raises)
          => /\ ~returned'.raised
             /\ IF tool_name \notin DOMAIN global_tool_registry._tool_classes
                   \/ raises
                THEN /\ returned'.value = <<NoInstance>>
                     /\ global_tool_registry'._active_tools
                          = global_tool_registry._active_tools
                     /\ get_tool(global_tool_registry', tool_name)
                          = get_tool(global_tool_registry, tool_name)
                ELSE LET created ==
                             [class |-> global_tool_registry._tool_classes[tool_name],
                              rtvi_processor |-> rtvi_processor,
                              task |-> NoTask]
                     IN  /\ returned'.value = <<created>>
                         /\ tool_name \in
                               DOMAIN global_tool_registry'._active_tools
                         /\ global_tool_registry'._active_tools[tool_name] = created
                         /\ \A n \in DOMAIN global_tool_registry._active_tools
                                  \ {tool_name} :
                               global_tool_registry'._active_tools[n]
                                 = global_tool_registry._active_tools[n]]_vars

(* C30 witness: a create_tool has returned None while the registry held an *)
(* instance, with its task set, under each registered name.                *)
C30_CreateFailedInstancesKept ==
    /\ returned.op = "create_tool"
    /\ returned.value = <<NoInstance>>
    /\ DOMAIN global_tool_registry._active_tools = RegisteredNames
    /\ \A n \in RegisteredNames :
          global_tool_registry._active_tools[n].task # NoTask

(* C31: a tool whose constructor raises degrades the setup of a session    *)
(* and does not end it.  When create_tool returned None for a tool,        *)
(* run_therapy_bot still completes its registrations: it does not raise,   *)
(* the three personas are registered, and no persona binds a handler or    *)
(* lists a tool definition of a tool that was not created.                 *)
C31_SetupDegradesOnFailedCreate ==
    [][\A c \in Connections, failing \in Failing :
          run_therapy_bot_registering(c, failing) /\ failing # {}
          => /\ ~returned'.raised
             /\ DOMAIN agents' = AgentNames
             /\ \A n \in AgentNames :
                   /\ DOMAIN agent_tools'[n] \cap failing = {}
                   /\ \A i \in 1..Len(agents'[n].tools) :
                         \A k \in failing :
                            agents'[n].tools[i] # get_tool_definition(k)]_vars

(* C32: a broadcast during which no endpoint wrote the registry sends to   *)
(* every client registered, whatever the outcome of the sends before; it   *)
(* returns the number of sends that succeeded, and when it returns the     *)
(* registry holds the clients it held before less those whose send failed. *)
C32_BroadcastReachesAllPrunesFailed ==
    [][broadcast'.at = "idle" /\ broadcast' # broadcast /\ ~broadcast'.changed
       => LET sends == broadcast'.sends
              failed == {i \in 1..MaxClients :
                           \E j \in 1..Len(sends) :
                              sends[j].client_id = i /\ ~sends[j].ok}
          IN  /\ ~returned'.raised
              /\ Len(sends) = Cardinality(broadcast'.registered)
              /\ {sends[j].client_id : j \in 1..Len(sends)} = broadcast'.registered
              /\ keys(tool_websockets') = broadcast'.registered \ failed
              /\ returned'.value =
                    <<Cardinality(broadcast'.registered \ failed)>>]_vars

(* C32 witness: a broadcast to three clients has returned 2; its first     *)
(* send failed and the two after it succeeded.                             *)
C32_FirstSendFailedOthersDelivered ==
    /\ broadcast.at = "idle"
    /\ ~broadcast.changed
    /\ Len(broadcast.sends) = 3
    /\ ~broadcast.sends[1].ok
    /\ broadcast.sends[2].ok /\ broadcast.sends[3].ok
    /\ returned.op = "broadcast_to_all_therapeutic_clients"
    /\ returned.value = <<2>>
    /\ Cardinality(keys(tool_websockets)) = 2

(* C33: the broadcast works on a snapshot of the registry.  Whatever the   *)
(* endpoints do to the registry while it is suspended in a send, it does   *)
(* not raise, and it has sent to every client that was registered when it  *)
(* started and is registered still when it ends.                           *)
C33_BroadcastIteratesSnapshot ==
    [][broadcast'.at = "idle" /\ broadcast' # broadcast
       => /\ ~returned'.raised
          /\ broadcast'.registered \cap keys(tool_websockets)
                \subseteq {broadcast'.sends[j].client_id :
                              j \in 1..Len(broadcast'.sends)}]_vars

(* C34: mood_monitoring describes a rating of 1 to 3 as very low, of 4 or  *)
(* 5 as low to moderate, of 6 or 7 as moderate and of 8 to 10 as good.     *)
(* The ratings logged before are integers, so that the trend of the log    *)
(* can be computed.                                                        *)
C34_MoodBuckets ==
    [][\A r \in 1..10, ok \in BOOLEAN :
          /\ cbt_execute_call(Pipeline, "mood_monitoring",
                              [mood_rating |-> IntRating(r)], ok)
          /\ \A i \in 1..Len(cbt_tool.mood_logs) :
                cbt_tool.mood_logs[i].type = "int"
          => /\ ~returned'.raised
             /\ returned'.value[3] = ToString(r)
             /\ returned'.value[5] =
                   (CASE r \in 1..3 -> "very low"
                      [] r \in 4..5 -> "low to moderate"
                      [] r \in 6..7 -> "moderate"
                      [] r \in 8..10 -> "good")]_vars

(* C34 witness: a rating of 3 was described as very low, and the rating    *)
(* before it, 4, is in the log.                                            *)
C34_ThreeIsVeryLowAfterFour ==
    /\ returned.op = "execute"
    /\ ~returned.raised
    /\ Len(returned.value) >= 5
    /\ returned.value[3] = "3"
    /\ returned.value[5] = "very low"
    /\ Len(cbt_tool.mood_logs) = 2
    /\ cbt_tool.mood_logs[1] = IntRating(4)

(* C35: every mood_monitoring call adds one entry to mood_logs, and every  *)
(* rating in mood_logs is an integer from 1 to 10, whatever mood_rating    *)
(* the calls were given.                                                   *)
C35_MoodLogsHoldRatingsInRange ==
    /\ [][\A mood_rating \in MoodRatings, ok \in BOOLEAN :
             cbt_execute_call(Pipeline, "mood_monitoring",
                              [mood_rating |-> mood_rating], ok)
             => Len(cbt_tool'.mood_logs) = Len(cbt_tool.mood_logs) + 1]_vars
    /\ [](\A i \in 1..Len(cbt_tool.mood_logs) :
             /\ cbt_tool.mood_logs[i].type = "int"
             /\ cbt_tool.mood_logs[i].value \in 1..10)

C37_HistoryIsChain ==
    /\ agent_history # << >> => agent_history[1].from_agent = "general_therapy"
    /\ \A i \in 2..Len(agent_history) :
          agent_history[i].from_agent = agent_history[i - 1].to_agent
    /\ \A i \in 1..Len(agent_history) :
          /\ agent_history[i].from_agent # agent_history[i].to_agent
          /\ agent_history[i].to_agent \in DOMAIN agents

handle_tool_command_switch_agent(outcome, target_agent, client_id) ==
    IF outcome.raised THEN
        [type |-> "error",
         message |-> <<"Error executing command: ">> \o outcome.value,
         client_id |-> client_id]
    ELSE
        [type |-> "agent_switch_response",
         data |-> [result |-> outcome.value, new_agent |-> target_agent],
         client_id |-> client_id]

(* C39: the new_agent field of the agent_switch_response a /ws/tools client *)
(* gets for a switch_agent command is the persona that is active once the  *)
(* command has been handled, whether the target was registered and         *)
(* different, already active, or unregistered.                             *)
C39_NewAgentIsActivePersona ==
    [][\A t \in Clients :
          /\ \A target_agent \in Targets, reason \in Reasons,
                arg \in ContextArguments :
                  (switch_agent(t, target_agent, reason, arg) /\ pc'[t] = "idle")
                  => LET response ==
                             handle_tool_command_switch_agent(
                                 returned', target_agent, t)
                     IN  response.type = "agent_switch_response"
                           => response.data.new_agent = current_agent'
          /\ \A ok \in BOOLEAN :
                  (switch_agent_resume(t, ok) /\ frame[t].op = "switch_agent")
                  => LET response ==
                             handle_tool_command_switch_agent(
                                 returned', frame[t].target_agent, t)
                     IN  response.type = "agent_switch_response"
                           => response.data.new_agent = current_agent'
      ]_vars

====
